---- MODULE Spec2Model ----
(***************************************************************************)
(* State-machine model of the samv71-hal serial drivers                    *)
(* (src/src/serial/uart.rs, src/src/serial/usart.rs, src/src/serial/mod.rs)*)
(*                                                                         *)
(* The memory-mapped registers of the serial peripherals and of the power  *)
(* management controller are the state; every driver operation is one      *)
(* action that records the register accesses it performs, in order, in     *)
(* `log`, and its outcome in `ret`.                                        *)
(***************************************************************************)
EXTENDS Integers, Sequences, FiniteSets, TLC

VARIABLES
    owned,           \* peripheral instance values (pac singletons) the application holds
    serial,          \* live Serial { uart, pins } values
    tx,              \* peripherals with a live Tx<UART> handle
    rx,              \* peripherals with a live Rx<UART> handle
    reg,             \* register block and enable state of every serial peripheral
    pmc,             \* power-management controller: PCER0/PCER1 and the gated clocks
    pc,              \* position of the single thread: "run", "write_str" or "halt"
    ws,              \* the write_str call in progress (its receiver and its bytes)
    ret,             \* the last operation issued and its outcome
    log,             \* register accesses of the last operation, in order
    twin,            \* the same program run with the driver left un-split
    pio,             \* registers of the parallel I/O ports
    held,            \* live pin values the application holds: <<pin, mode>>
    interface,       \* peripherals wrapped by the crate-root Serial<INTERFACE>
    erased           \* live type-erased pin handles Pin<MODE>: [i, port, mode]

vars == <<owned, serial, tx, rx, reg, pmc, pc, ws, ret, log, twin, pio, held,
          interface, erased>>

\* The state outside the serial module's drivers
elsewhere == <<twin, pio, held, interface, erased>>

-----------------------------------------------------------------------------
(* Peripheral instances and the uart! / usart! instantiation tables *)

UARTs == {"UART0", "UART1", "UART2", "UART3", "UART4"}

USARTs == {"USART0", "USART1", "USART2"}

Periphs == UARTs \cup USARTs

\* Every instance clocked through the first clock-enable register
Pcer_first(p) == IF p \in Periphs THEN "PCER0" ELSE "PCER1"

\* $pmc_pcerx of uart! and usart!
Pcer(p) ==
    CASE p \in {"UART0", "UART1"}          -> "PCER0"
      [] p \in {"UART2", "UART3", "UART4"} -> "PCER1"
      [] p \in USARTs                      -> "PCER0"

-----------------------------------------------------------------------------
(* Pin values and the capability relation (uart_pins!, usart_pins!) *)

\* A pin value is <<physical pin, mode tag>>; Unit is the () of a tx-only or
\* rx-only driver.
Unit == <<"()", "()">>

\* The tx rows with UART0 also served by PD26 under AF2
TxPin_borrowing(p) ==
    CASE p = "UART0"  -> {<<"PA10", "AF0">>, <<"PD26", "AF2">>}
      [] p = "UART1"  -> {<<"PA4", "AF2">>, <<"PA6", "AF2">>, <<"PD26", "AF3">>}
      [] p = "UART2"  -> {<<"PD26", "AF2">>}
      [] p = "UART3"  -> {<<"PD30", "AF0">>, <<"PD31", "AF1">>}
      [] p = "UART4"  -> {<<"PD19", "AF2">>, <<"PD3", "AF2">>}
      [] p = "USART0" -> {<<"PB1", "AF2">>}
      [] p = "USART1" -> {<<"PB4", "AF3">>}
      [] p = "USART2" -> {<<"PD16", "AF1">>}

TxPin(p) ==
    CASE p = "UART0"  -> {<<"PA10", "AF0">>}
      [] p = "UART1"  -> {<<"PA4", "AF2">>, <<"PA6", "AF2">>, <<"PD26", "AF3">>}
      [] p = "UART2"  -> {<<"PD26", "AF2">>}
      [] p = "UART3"  -> {<<"PD30", "AF0">>, <<"PD31", "AF1">>}
      [] p = "UART4"  -> {<<"PD19", "AF2">>, <<"PD3", "AF2">>}
      [] p = "USART0" -> {<<"PB1", "AF2">>}
      [] p = "USART1" -> {<<"PB4", "AF3">>}
      [] p = "USART2" -> {<<"PD16", "AF1">>}

RxPin(p) ==
    CASE p = "UART0"  -> {<<"PA9", "AF0">>}
      [] p = "UART1"  -> {<<"PA5", "AF2">>}
      [] p = "UART2"  -> {<<"PD25", "AF2">>}
      [] p = "UART3"  -> {<<"PD28", "AF0">>}
      [] p = "UART4"  -> {<<"PD18", "AF2">>}
      [] p = "USART0" -> {<<"PB0", "AF2">>}
      [] p = "USART1" -> {<<"PA21", "AF0">>}
      [] p = "USART2" -> {<<"PD15", "AF1">>}

\* The capability relation as tuples (pin, alternate function, peripheral, role)
Capability ==
    UNION {{<<v[1], v[2], p, "Tx">> : v \in TxPin(p)}
           \cup {<<v[1], v[2], p, "Rx">> : v \in RxPin(p)} : p \in Periphs}

\* Pin values that are in the relation for one peripheral only or for none:
\* PD26 under each of its two serial functions (UART2 and UART1 transmit), a
\* pin in its reset mode, and the unit value.
Foreign ==
    {<<"PD26", "AF2">>, <<"PD26", "AF3">>, <<"PA0", "Input<Floating>">>, Unit}

\* Pin values an application offers to a constructor of peripheral p
Offered(p) == TxPin(p) \cup RxPin(p) \cup Foreign

-----------------------------------------------------------------------------
(* Registers *)

ErrFlags == {"OVRE", "FRAME", "PARE"}

Flags == ErrFlags \cup {"RXRDY", "TXRDY", "TXEMPTY"}

\* Characters the line can deliver and the application can send: u8 for the
\* UART, u16 for the USART.
Words(p) == IF p \in UARTs THEN {72, 105} ELSE {72, 300}

\* Characters the line delivers
Chars(p) == IF p \in UARTs THEN {72} ELSE {300}

\* Register block of one serial peripheral after chip reset
ResetBlock ==
    [CR |-> {}, MR |-> {}, BRGR |-> 0, THR |-> 0, RHR |-> 0, SR |-> {},
     TXEN |-> FALSE, RXEN |-> FALSE]

\* One register access: a read ("r") or a write ("w") of register `reg` of
\* block `blk`; `bits` holds the bit fields read or written, `num` a number.
Access(rw, blk, r, bits, num) ==
    [rw |-> rw, blk |-> blk, reg |-> r, bits |-> bits, num |-> num]

\* Effect of a control-register write on the peripheral: write-1-to-act bits
\* reset or disable, or enable, each direction; RSTSTA clears the latched
\* error flags.
CrEffect(b, bits) ==
    [b EXCEPT
        !.CR = bits,
        !.TXEN = IF bits \cap {"TXDIS", "RSTTX"} # {} THEN FALSE
                 ELSE IF "TXEN" \in bits THEN TRUE ELSE b.TXEN,
        !.RXEN = IF bits \cap {"RXDIS", "RSTRX"} # {} THEN FALSE
                 ELSE IF "RXEN" \in bits THEN TRUE ELSE b.RXEN,
        !.SR = IF "RSTSTA" \in bits THEN b.SR \ ErrFlags ELSE b.SR]

\* Effect of one access on a peripheral's block: write_with_zero replaces the
\* whole register; reading RHR clears RXRDY; other reads change nothing.
BlockAfter(b, a) ==
    IF a.rw = "w"
    THEN CASE a.reg = "CR"   -> CrEffect(b, a.bits)
           [] a.reg = "MR"   -> [b EXCEPT !.MR = a.bits]
           [] a.reg = "BRGR" -> [b EXCEPT !.BRGR = a.num]
           [] a.reg = "THR"  -> [b EXCEPT !.THR = a.num]
    ELSE IF a.reg = "RHR" THEN [b EXCEPT !.SR = b.SR \ {"RXRDY"}] ELSE b

\* Effect of one access on the power-management controller: PCERx is
\* write-only, a 1 bit switches that peripheral clock on.
PmcAfter(m, a) ==
    IF a.rw = "w" /\ a.reg = "PCER0"
    THEN [m EXCEPT !.PCER0 = a.bits, !.clocks = m.clocks \cup a.bits]
    ELSE IF a.rw = "w" /\ a.reg = "PCER1"
    THEN [m EXCEPT !.PCER1 = a.bits, !.clocks = m.clocks \cup a.bits]
    ELSE m

RECURSIVE RegsAfter(_, _)
\* The peripherals' registers after the accesses `accs`, in order
RegsAfter(rg, accs) ==
    IF accs = <<>> THEN rg
    ELSE LET a == Head(accs)
         IN  RegsAfter(IF a.blk \in Periphs
                       THEN [rg EXCEPT ![a.blk] = BlockAfter(rg[a.blk], a)]
                       ELSE rg,
                       Tail(accs))

RECURSIVE PmcAfterAll(_, _)
\* The power-management controller after the accesses `accs`, in order
PmcAfterAll(m, accs) ==
    IF accs = <<>> THEN m
    ELSE LET a == Head(accs)
         IN  PmcAfterAll(IF a.blk = "PMC" THEN PmcAfter(m, a) ELSE m, Tail(accs))

-----------------------------------------------------------------------------
(* Parallel I/O ports: the gpio! instantiation table and the port registers *)

\* $GPIOX of the gpio! table
Ports == {"PIOA", "PIOB", "PIOC", "PIOD", "PIOE"}

\* $pidx of the gpio! table
PortPid(port) ==
    CASE port = "PIOA" -> "PID10"
      [] port = "PIOB" -> "PID11"
      [] port = "PIOC" -> "PID12"
      [] port = "PIOD" -> "PID16"
      [] port = "PIOE" -> "PID17"

\* The rows PDi: (pdi, i, Input<Floating>) of port D, in table order
PortDPins ==
    <<"PD0", "PD1", "PD2", "PD3", "PD4", "PD5", "PD6", "PD7",
      "PD8", "PD9", "PD10", "PD11", "PD12", "PD13", "PD14", "PD15",
      "PD16", "PD17", "PD18", "PD19", "PD20", "PD21", "PD22", "PD23",
      "PD24", "PD25", "PD26", "PD27", "PD28", "PD29", "PD30", "PD31">>

\* $PXi of a port (port D is the one followed)
PinsOf(port) == IF port = "PIOD" THEN {PortDPins[k] : k \in DOMAIN PortDPins} ELSE {}

\* $i of a pin's row
Index(pin) == (CHOOSE k \in DOMAIN PortDPins : PortDPins[k] = pin) - 1

\* The port a pin belongs to
PortOf(pin) == CHOOSE port \in Ports : pin \in PinsOf(port)

\* A u32 is kept as the set of the positions of its 1 bits; U32(n) is the
\* small number n as a u32
U32(n) == {i \in 0..7 : (n \div (2 ^ i)) % 2 = 1}

\* a & b on u32
And32(a, b) == a \cap b

\* a >> k on u32
Shr32(a, k) == {i - k : i \in {j \in a : j >= k}}

\* a << k on u32: the bits shifted past bit 31 are lost
Shl32(a, k) == {i + k : i \in a} \cap (0..31)

\* Register block of one port after chip reset: every line under PIO
\* control, peripheral selection A, no pull resistor, no output driver.
ResetPort ==
    [PSR |-> 0..31, ABCDSR1 |-> {}, ABCDSR2 |-> {}, PUSR |-> {}, PPDSR |-> {},
     OSR |-> {}, ODSR |-> {}]

\* Effect of one access on a port: PER/PDR switch PIO control of the lines
\* written as 1 on and off, PUER/PPDER/OER switch a pull resistor or the
\* output driver on, a write of ABCDSRn replaces the register, SODR/CODR
\* set and clear the output data of the lines written as 1.
PortAfter(b, a) ==
    IF a.rw = "w"
    THEN CASE a.reg = "PER"     -> [b EXCEPT !.PSR = @ \cup a.bits]
           [] a.reg = "PDR"     -> [b EXCEPT !.PSR = @ \ a.bits]
           [] a.reg = "ABCDSR1" -> [b EXCEPT !.ABCDSR1 = a.bits]
           [] a.reg = "ABCDSR2" -> [b EXCEPT !.ABCDSR2 = a.bits]
           [] a.reg = "PUER"    -> [b EXCEPT !.PUSR = @ \cup a.bits]
           [] a.reg = "PPDER"   -> [b EXCEPT !.PPDSR = @ \cup a.bits]
           [] a.reg = "OER"     -> [b EXCEPT !.OSR = @ \cup a.bits]
           [] a.reg = "SODR"    -> [b EXCEPT !.ODSR = @ \cup a.bits]
           [] a.reg = "CODR"    -> [b EXCEPT !.ODSR = @ \ a.bits]
    ELSE b

RECURSIVE PioAfterAll(_, _)
\* The port registers after the accesses `accs`, in order
PioAfterAll(io, accs) ==
    IF accs = <<>> THEN io
    ELSE LET a == Head(accs)
         IN  PioAfterAll(IF a.blk \in Ports
                         THEN [io EXCEPT ![a.blk] = PortAfter(io[a.blk], a)]
                         ELSE io,
                         Tail(accs))

-----------------------------------------------------------------------------
(* Serial configuration *)

\* Peripheral clock assumed by the UART divisor
UartClock == 150000000

\* Peripheral clock assumed by the USART divisor
UsartClock == 12000000

\* BaudRate(pub u16): values a configuration is built with.  16 * 4096
\* is the first product that does not fit a u16; 12_000_000 / (16 * 11)
\* is the last USART divisor that does not fit 16 bits.
Bauds == {0, 1, 11, 12, 300, 4095, 4096, 9600, 65535}

\* serial::uart::Config values: every baud rate under three settings of
\* the other fields
UartConfigs ==
    {[baud_rate |-> b, parity |-> m[1], channel_mode |-> m[2],
      digital_filter |-> m[3]] :
        b \in Bauds,
        m \in {<<"NoParity", "Normal", FALSE>>, <<"Even", "LocalLoopback", TRUE>>,
               <<"Mark", "Automatic", FALSE>>}}

\* serial::usart::Config values: every baud rate under three settings of
\* the other fields
UsartConfigs ==
    {[baud_rate |-> b, parity |-> m[1], channel_mode |-> m[2],
      char_length |-> m[3], sync_mode |-> m[4], usart_mode |-> m[5]] :
        b \in Bauds,
        m \in {<<"NoParity", "Normal", "EightBit", "Async", "Normal">>,
               <<"MultridropMode", "RemoteLoopback", "FiveBit", "Sync", "Rs485">>,
               <<"Odd", "Normal", "SevenBit", "Async", "SPIMaster">>}}

Configs(p) == IF p \in UARTs THEN UartConfigs ELSE UsartConfigs

\* The configuration of the drivers whose byte transport is followed:
\* 300 baud, no parity, normal mode
TransportConfigs(p) ==
    {c \in Configs(p) :
        c.baud_rate = 300 /\ c.parity = "NoParity" /\ c.channel_mode = "Normal"}

\* Truncation of a value to 16 bits
Wrap16(n) == n % 65536

\* ConfigMethod::get_mode: ChannelMode -> mr::CHMODE_A
get_mode(mode) ==
    CASE mode = "Normal"         -> "chmode=NORMAL"
      [] mode = "Automatic"      -> "chmode=AUTOMATIC"
      [] mode = "LocalLoopback"  -> "chmode=LOCAL_LOOPBACK"
      [] mode = "RemoteLoopback" -> "chmode=REMOTE_LOOPBACK"

\* ConfigMethod::get_parity: Parity -> mr::PAR_A
get_parity(parity) ==
    CASE parity = "Even"           -> "par=EVEN"
      [] parity = "Mark"           -> "par=MARK"
      [] parity = "MultridropMode" -> "par=MULTIDROP"
      [] parity = "NoParity"       -> "par=NO"
      [] parity = "Odd"            -> "par=ODD"
      [] parity = "Space"          -> "par=SPACE"

\* ConfigMethod::get_char_length (USART): CharLength -> mr::CHRL_A
get_char_length(len) ==
    CASE len = "FiveBit"  -> "chrl=5_BIT"
      [] len = "SixBit"   -> "chrl=6_BIT"
      [] len = "SevenBit" -> "chrl=7_BIT"
      [] len = "EightBit" -> "chrl=8_BIT"

\* ConfigMethod::get_usart_mode (USART): UsartMode -> mr::USART_MODE_A
get_usart_mode(m) ==
    CASE m = "Normal"        -> "usart_mode=NORMAL"
      [] m = "HWHandsahking" -> "usart_mode=HW_HANDSHAKING"
      [] m = "LON"           -> "usart_mode=LON"
      [] m = "Rs485"         -> "usart_mode=RS485"
      [] m = "SPISlave"      -> "usart_mode=SPI_SLAVE"
      [] m = "SPIMaster"     -> "usart_mode=SPI_MASTER"

\* UART: `let cd = 150_000_000 / (config.baud_rate.0 * 16);`
\* baud_rate.0 is a u16, so the product and the quotient are u16 and the
\* literal is a u16 literal (its value wraps to 16 bits).  The product
\* panics on overflow when overflow checks are compiled in and wraps when
\* they are not; a zero divisor panics in every build.
uart_cd(baud, overflow_checks) ==
    LET product == baud * 16
        divisor == Wrap16(product)
    IN  IF overflow_checks /\ product >= 65536 THEN [panic |-> TRUE, val |-> 0]
        ELSE IF divisor = 0 THEN [panic |-> TRUE, val |-> 0]
        ELSE [panic |-> FALSE, val |-> Wrap16(Wrap16(UartClock) \div divisor)]

\* USART: `12_000_000u32 / ((config.baud_rate.0 as u32) * 16u32)`; the
\* product of a u16 and 16 always fits a u32; a zero divisor panics.
usart_cd(baud) ==
    LET divisor == baud * 16
    IN  IF divisor = 0 THEN [panic |-> TRUE, val |-> 0]
        ELSE [panic |-> FALSE, val |-> UsartClock \div divisor]

\* UART ConfigMethod::configure: the accesses it performs, and whether it
\* panics (after the mode-register write, before the divisor is written)
uart_configure(p, config, overflow_checks) ==
    LET mr == Access("w", p, "MR",
                     {get_mode(config.channel_mode), get_parity(config.parity),
                      IF config.digital_filter THEN "filter=1" ELSE "filter=0",
                      "brsrcck=PERIPH_CLK"}, 0)
        cd == uart_cd(config.baud_rate, overflow_checks)
    IN  IF cd.panic
        THEN [panic |-> TRUE, accs |-> <<mr>>]
        ELSE [panic |-> FALSE,
              accs |-> <<mr, Access("w", p, "BRGR", {}, cd.val)>>]

\* $pidx / $pid of the uart! and usart! instantiations
PidBit(p) ==
    CASE p = "UART0"  -> "PID7"
      [] p = "UART1"  -> "PID8"
      [] p = "UART2"  -> "PID44"
      [] p = "UART3"  -> "PID45"
      [] p = "UART4"  -> "PID46"
      [] p = "USART0" -> "PID13"
      [] p = "USART1" -> "PID14"
      [] p = "USART2" -> "PID15"

\* USART ConfigMethod::configure: clock enable, mode register, divisor
usart_configure(p, config) ==
    LET ck == Access("w", "PMC", Pcer(p), {PidBit(p)}, 0)
        mr == Access("w", p, "MR",
                     {get_usart_mode(config.usart_mode), get_parity(config.parity),
                      get_mode(config.channel_mode),
                      get_char_length(config.char_length),
                      IF config.sync_mode = "Sync" THEN "sync=1" ELSE "sync=0"}, 0)
        cd == usart_cd(config.baud_rate)
    IN  IF cd.panic
        THEN [panic |-> TRUE, accs |-> <<ck, mr>>]
        ELSE [panic |-> FALSE,
              accs |-> <<ck, mr, Access("w", p, "BRGR", {}, cd.val)>>]

-----------------------------------------------------------------------------
(* Constructors: the register accesses of each, in program order *)

\* Control-register write that resets and disables both directions
ResetBits == {"RSTRX", "RXDIS", "RSTTX", "TXDIS", "RSTSTA"}

\* Serial::$uart (full duplex): clock enable, reset, configure, enable
uart(p, config, overflow_checks) ==
    LET cfg == uart_configure(p, config, overflow_checks)
        head == <<Access("w", "PMC", Pcer(p), {PidBit(p)}, 0),
                  Access("w", p, "CR", ResetBits, 0)>> \o cfg.accs
    IN  [panic |-> cfg.panic,
         accs |-> IF cfg.panic THEN head
                  ELSE head \o <<Access("w", p, "CR", {"TXEN", "RXEN"}, 0)>>]

\* Serial::$uartrx: clock enable, reset, configure, enable
uartrx(p, config, overflow_checks) ==
    LET cfg == uart_configure(p, config, overflow_checks)
        head == <<Access("w", "PMC", Pcer(p), {PidBit(p)}, 0),
                  Access("w", p, "CR", ResetBits, 0)>> \o cfg.accs
    IN  [panic |-> cfg.panic,
         accs |-> IF cfg.panic THEN head
                  ELSE head \o <<Access("w", p, "CR", {"RXEN"}, 0)>>]

\* Serial::$uarttx: clock enable, reset, configure, enable
uarttx(p, config, overflow_checks) ==
    LET cfg == uart_configure(p, config, overflow_checks)
        head == <<Access("w", "PMC", Pcer(p), {PidBit(p)}, 0),
                  Access("w", p, "CR", ResetBits, 0)>> \o cfg.accs
    IN  [panic |-> cfg.panic,
         accs |-> IF cfg.panic THEN head
                  ELSE head \o <<Access("w", p, "CR", {"TXEN"}, 0)>>]

\* Serial::$usart (full duplex): configure (clock enable, mode, divisor), enable
usart(p, config) ==
    LET cfg == usart_configure(p, config)
    IN  [panic |-> cfg.panic,
         accs |-> IF cfg.panic THEN cfg.accs
                  ELSE cfg.accs \o <<Access("w", p, "CR", {"TXEN", "RXEN"}, 0)>>]

\* A tx-only constructor that enables both directions
usarttx_both(p, config) ==
    LET cfg == usart_configure(p, config)
    IN  [panic |-> cfg.panic,
         accs |-> IF cfg.panic THEN cfg.accs
                  ELSE cfg.accs \o <<Access("w", p, "CR", {"TXEN", "RXEN"}, 0)>>]

\* Serial::$usarttx
usarttx(p, config) ==
    LET cfg == usart_configure(p, config)
    IN  [panic |-> cfg.panic,
         accs |-> IF cfg.panic THEN cfg.accs
                  ELSE cfg.accs \o <<Access("w", p, "CR", {"TXEN"}, 0)>>]

\* Serial::$usartrx
usartrx(p, config) ==
    LET cfg == usart_configure(p, config)
    IN  [panic |-> cfg.panic,
         accs |-> IF cfg.panic THEN cfg.accs
                  ELSE cfg.accs \o <<Access("w", p, "CR", {"RXEN"}, 0)>>]

\* Names of the constructors, by shape
FullCtor(p) == IF p \in UARTs THEN "uart" ELSE "usart"

TxCtor(p) == IF p \in UARTs THEN "uarttx" ELSE "usarttx"

RxCtor(p) == IF p \in UARTs THEN "uartrx" ELSE "usartrx"

Ctors == {"uart", "uarttx", "uartrx", "usart", "usarttx", "usartrx"}

\* Bounds that accept a serial pin of the peripheral in either role
Admits_any_role(ctor, p, pins) ==
    LET any == TxPin(p) \cup RxPin(p)
    IN  CASE ctor \in {"uart", "usart"}     -> pins[1] \in any /\ pins[2] \in any
          [] ctor \in {"uarttx", "usarttx"} -> pins[1] \in any /\ pins[2] = Unit
          [] ctor \in {"uartrx", "usartrx"} -> pins[1] = Unit /\ pins[2] \in any

\* where TXPIN: TxPin<$UART>, RXPIN: RxPin<$UART> (and the () of the
\* one-direction constructors): the pin pairs a constructor accepts
Admits(ctor, p, pins) ==
    CASE ctor \in {"uart", "usart"}     -> pins[1] \in TxPin(p) /\ pins[2] \in RxPin(p)
      [] ctor \in {"uarttx", "usarttx"} -> pins[1] \in TxPin(p) /\ pins[2] = Unit
      [] ctor \in {"uartrx", "usartrx"} -> pins[1] = Unit /\ pins[2] \in RxPin(p)

\* The accesses of constructor `ctor` in a build with (TRUE) or without
\* (FALSE) arithmetic overflow checks
CtorBody(ctor, p, config, overflow_checks) ==
    CASE ctor = "uart"    -> uart(p, config, overflow_checks)
      [] ctor = "uarttx"  -> uarttx(p, config, overflow_checks)
      [] ctor = "uartrx"  -> uartrx(p, config, overflow_checks)
      [] ctor = "usart"   -> usart(p, config)
      [] ctor = "usarttx" -> usarttx(p, config)
      [] ctor = "usartrx" -> usartrx(p, config)

-----------------------------------------------------------------------------
(* Byte transport: outcome and register accesses of one call that finds the
   peripheral's registers as in block b *)

Ok(v, accs) == [tag |-> "Ok", err |-> "", val |-> v, accs |-> accs]

Err(e, accs) == [tag |-> "Err", err |-> e, val |-> 0, accs |-> accs]

WouldBlock(accs) == [tag |-> "WouldBlock", err |-> "", val |-> 0, accs |-> accs]

\* A read that masks a parity error when a character is ready
uart_Serial_read_masking(p, b) ==
    LET status_register == b.SR
        sr == Access("r", p, "SR", status_register, 0)
    IN  IF "OVRE" \in status_register THEN Err("Overrun", <<sr>>)
        ELSE IF "FRAME" \in status_register THEN Err("Framing", <<sr>>)
        ELSE IF "RXRDY" \in status_register
             THEN Ok(b.RHR, <<sr, Access("r", p, "RHR", {}, b.RHR)>>)
        ELSE IF "PARE" \in status_register THEN Err("Parity", <<sr>>)
        ELSE WouldBlock(<<sr>>)

\* A read that fetches RHR before it looks at the flags, and so consumes a
\* pending character even when it reports an error
uart_Serial_read_eager(p, b) ==
    LET status_register == b.SR
        sr == Access("r", p, "SR", status_register, 0)
        rhr == Access("r", p, "RHR", {}, b.RHR)
    IN  IF "OVRE" \in status_register THEN Err("Overrun", <<sr, rhr>>)
        ELSE IF "FRAME" \in status_register THEN Err("Framing", <<sr, rhr>>)
        ELSE IF "PARE" \in status_register THEN Err("Parity", <<sr, rhr>>)
        ELSE IF "RXRDY" \in status_register THEN Ok(b.RHR, <<sr, rhr>>)
        ELSE WouldBlock(<<sr, rhr>>)

\* serial::uart  Read<u8> for Serial<$UART, TXPIN, RXPIN>
uart_Serial_read(p, b) ==
    LET status_register == b.SR
        sr == Access("r", p, "SR", status_register, 0)
    IN  IF "OVRE" \in status_register THEN Err("Overrun", <<sr>>)
        ELSE IF "FRAME" \in status_register THEN Err("Framing", <<sr>>)
        ELSE IF "PARE" \in status_register THEN Err("Parity", <<sr>>)
        ELSE IF "RXRDY" \in status_register
             THEN Ok(b.RHR, <<sr, Access("r", p, "RHR", {}, b.RHR)>>)
        ELSE WouldBlock(<<sr>>)

\* An Rx-half read that has lost the parity test of the un-split read
uart_Rx_read_no_parity(p, b) ==
    LET status_register == b.SR
        sr == Access("r", p, "SR", status_register, 0)
    IN  IF "OVRE" \in status_register THEN Err("Overrun", <<sr>>)
        ELSE IF "FRAME" \in status_register THEN Err("Framing", <<sr>>)
        ELSE IF "RXRDY" \in status_register
             THEN Ok(b.RHR, <<sr, Access("r", p, "RHR", {}, b.RHR)>>)
        ELSE WouldBlock(<<sr>>)

\* serial::uart  Read<u8> for Rx<$UART>
uart_Rx_read(p, b) ==
    LET status_register == b.SR
        sr == Access("r", p, "SR", status_register, 0)
    IN  IF "OVRE" \in status_register THEN Err("Overrun", <<sr>>)
        ELSE IF "FRAME" \in status_register THEN Err("Framing", <<sr>>)
        ELSE IF "PARE" \in status_register THEN Err("Parity", <<sr>>)
        ELSE IF "RXRDY" \in status_register
             THEN Ok(b.RHR, <<sr, Access("r", p, "RHR", {}, b.RHR)>>)
        ELSE WouldBlock(<<sr>>)

\* A read that clears the error flags it reports by writing RSTSTA to CR
usart_Serial_read_clearing(p, b) ==
    LET status_register == b.SR
        sr == Access("r", p, "SR", status_register, 0)
        rststa == Access("w", p, "CR", {"RSTSTA"}, 0)
    IN  IF "OVRE" \in status_register THEN Err("Overrun", <<sr, rststa>>)
        ELSE IF "FRAME" \in status_register THEN Err("Framing", <<sr, rststa>>)
        ELSE IF "PARE" \in status_register THEN Err("Parity", <<sr, rststa>>)
        ELSE IF "RXRDY" \in status_register
             THEN Ok(b.RHR, <<sr, Access("r", p, "RHR", {}, b.RHR)>>)
        ELSE WouldBlock(<<sr>>)

\* serial::usart  Read<u16> for Serial<$USART, TXPIN, RXPIN>
usart_Serial_read(p, b) ==
    LET status_register == b.SR
        sr == Access("r", p, "SR", status_register, 0)
    IN  IF "OVRE" \in status_register THEN Err("Overrun", <<sr>>)
        ELSE IF "FRAME" \in status_register THEN Err("Framing", <<sr>>)
        ELSE IF "PARE" \in status_register THEN Err("Parity", <<sr>>)
        ELSE IF "RXRDY" \in status_register
             THEN Ok(b.RHR, <<sr, Access("r", p, "RHR", {}, b.RHR)>>)
        ELSE WouldBlock(<<sr>>)

\* A read that tests FRAME before OVRE: the priority order departed from
usart_Rx_read_framing_first(p, b) ==
    LET status_register == b.SR
        sr == Access("r", p, "SR", status_register, 0)
    IN  IF "FRAME" \in status_register THEN Err("Framing", <<sr>>)
        ELSE IF "OVRE" \in status_register THEN Err("Overrun", <<sr>>)
        ELSE IF "PARE" \in status_register THEN Err("Parity", <<sr>>)
        ELSE IF "RXRDY" \in status_register
             THEN Ok(b.RHR, <<sr, Access("r", p, "RHR", {}, b.RHR)>>)
        ELSE WouldBlock(<<sr>>)

\* serial::usart  Read<u16> for Rx<$USART>
usart_Rx_read(p, b) ==
    LET status_register == b.SR
        sr == Access("r", p, "SR", status_register, 0)
    IN  IF "OVRE" \in status_register THEN Err("Overrun", <<sr>>)
        ELSE IF "FRAME" \in status_register THEN Err("Framing", <<sr>>)
        ELSE IF "PARE" \in status_register THEN Err("Parity", <<sr>>)
        ELSE IF "RXRDY" \in status_register
             THEN Ok(b.RHR, <<sr, Access("r", p, "RHR", {}, b.RHR)>>)
        ELSE WouldBlock(<<sr>>)

\* serial::uart  Write<u8> for Serial<$UART, TXPIN, RXPIN>: write
uart_Serial_write(p, b, byte) ==
    LET status_register == b.SR
        sr == Access("r", p, "SR", status_register, 0)
    IN  IF "TXRDY" \in status_register
        THEN Ok(0, <<sr, Access("w", p, "THR", {}, byte)>>)
        ELSE WouldBlock(<<sr>>)

\* A write that stores the byte in THR whether or not TXRDY is set
uart_Tx_write_unguarded(p, b, byte) ==
    LET status_register == b.SR
        sr == Access("r", p, "SR", status_register, 0)
        thr == Access("w", p, "THR", {}, byte)
    IN  IF "TXRDY" \in status_register
        THEN Ok(0, <<sr, thr>>)
        ELSE WouldBlock(<<sr, thr>>)

\* A Tx-half write that empties the receive holding register on its way
uart_Tx_write_draining(p, b, byte) ==
    LET status_register == b.SR
        sr == Access("r", p, "SR", status_register, 0)
    IN  IF "TXRDY" \in status_register
        THEN Ok(0, <<sr, Access("r", p, "RHR", {}, b.RHR),
                     Access("w", p, "THR", {}, byte)>>)
        ELSE WouldBlock(<<sr>>)

\* serial::uart  Write<u8> for Tx<$UART>: write
uart_Tx_write(p, b, byte) ==
    LET status_register == b.SR
        sr == Access("r", p, "SR", status_register, 0)
    IN  IF "TXRDY" \in status_register
        THEN Ok(0, <<sr, Access("w", p, "THR", {}, byte)>>)
        ELSE WouldBlock(<<sr>>)

\* serial::usart  Write<u16> for Serial<$USART, TXPIN, RXPIN>: write
usart_Serial_write(p, b, data) ==
    LET status_register == b.SR
        sr == Access("r", p, "SR", status_register, 0)
    IN  IF "TXRDY" \in status_register
        THEN Ok(0, <<sr, Access("w", p, "THR", {}, data)>>)
        ELSE WouldBlock(<<sr>>)

\* serial::usart  Write<u16> for Tx<$USART>: write
usart_Tx_write(p, b, data) ==
    LET status_register == b.SR
        sr == Access("r", p, "SR", status_register, 0)
    IN  IF "TXRDY" \in status_register
        THEN Ok(0, <<sr, Access("w", p, "THR", {}, data)>>)
        ELSE WouldBlock(<<sr>>)

\* A flush that resets the status once the transmitter is empty
uart_Serial_flush_resetting(p, b) ==
    LET status_register == b.SR
        sr == Access("r", p, "SR", status_register, 0)
    IN  IF "TXEMPTY" \in status_register
        THEN Ok(0, <<sr, Access("w", p, "CR", {"RSTSTA"}, 0)>>)
        ELSE WouldBlock(<<sr>>)

\* serial::uart  Write<u8> for Serial<$UART, TXPIN, RXPIN>: flush
uart_Serial_flush(p, b) ==
    LET status_register == b.SR
        sr == Access("r", p, "SR", status_register, 0)
    IN  IF "TXEMPTY" \in status_register THEN Ok(0, <<sr>>) ELSE WouldBlock(<<sr>>)

\* serial::uart  Write<u8> for Tx<$UART>: flush
uart_Tx_flush(p, b) ==
    LET status_register == b.SR
        sr == Access("r", p, "SR", status_register, 0)
    IN  IF "TXEMPTY" \in status_register THEN Ok(0, <<sr>>) ELSE WouldBlock(<<sr>>)

\* serial::usart  Write<u16> for Serial<$USART, TXPIN, RXPIN>: flush
usart_Serial_flush(p, b) ==
    LET status_register == b.SR
        sr == Access("r", p, "SR", status_register, 0)
    IN  IF "TXEMPTY" \in status_register THEN Ok(0, <<sr>>) ELSE WouldBlock(<<sr>>)

\* A flush with the test inverted: Ok while the transmitter is still busy
usart_Tx_flush_inverted(p, b) ==
    LET status_register == b.SR
        sr == Access("r", p, "SR", status_register, 0)
    IN  IF "TXEMPTY" \in status_register THEN WouldBlock(<<sr>>) ELSE Ok(0, <<sr>>)

\* serial::usart  Write<u16> for Tx<$USART>: flush
usart_Tx_flush(p, b) ==
    LET status_register == b.SR
        sr == Access("r", p, "SR", status_register, 0)
    IN  IF "TXEMPTY" \in status_register THEN Ok(0, <<sr>>) ELSE WouldBlock(<<sr>>)

\* The implementation a call resolves to, by receiver type and peripheral
ReadOf(on, p, b) ==
    CASE on = "Serial" /\ p \in UARTs  -> uart_Serial_read(p, b)
      [] on = "Rx"     /\ p \in UARTs  -> uart_Rx_read(p, b)
      [] on = "Serial" /\ p \in USARTs -> usart_Serial_read(p, b)
      [] on = "Rx"     /\ p \in USARTs -> usart_Rx_read(p, b)

WriteOf(on, p, b, x) ==
    CASE on = "Serial" /\ p \in UARTs  -> uart_Serial_write(p, b, x)
      [] on = "Tx"     /\ p \in UARTs  -> uart_Tx_write(p, b, x)
      [] on = "Serial" /\ p \in USARTs -> usart_Serial_write(p, b, x)
      [] on = "Tx"     /\ p \in USARTs -> usart_Tx_write(p, b, x)

FlushOf(on, p, b) ==
    CASE on = "Serial" /\ p \in UARTs  -> uart_Serial_flush(p, b)
      [] on = "Tx"     /\ p \in UARTs  -> uart_Tx_flush(p, b)
      [] on = "Serial" /\ p \in USARTs -> usart_Serial_flush(p, b)
      [] on = "Tx"     /\ p \in USARTs -> usart_Tx_flush(p, b)

-----------------------------------------------------------------------------
(* State *)

NoWriteStr == [on |-> "-", p |-> "-", todo |-> <<>>, sent |-> <<>>]

\* What `ret` records of an operation: its name, the type of its receiver
\* and the peripheral, its numeric argument (the word written, the baud rate
\* of the configuration), whether it returned Ok / Err / WouldBlock (or
\* panicked, was rejected, is still running), and the value, error or pins
\* it returned
Ret(op, on, p, arg, tag, err, val, pins) ==
    [op |-> op, on |-> on, p |-> p, arg |-> arg, tag |-> tag, err |-> err,
     val |-> val, pins |-> pins]

\* After chip reset, with the peripheral instances `taken` from the pac
Reset(taken) ==
    /\ owned = taken
    /\ serial = {}
    /\ tx = {}
    /\ rx = {}
    /\ reg = [p \in Periphs |-> ResetBlock]
    /\ pmc = [PCER0 |-> {}, PCER1 |-> {}, clocks |-> {}]
    /\ pc = "run"
    /\ ws = NoWriteStr
    /\ ret = Ret("reset", "-", "-", 0, "Ok", "", 0, <<Unit, Unit>>)
    /\ log = <<>>
    /\ twin = [reg |-> reg, ret |-> ret, log |-> log]
    /\ pio = [port \in Ports |-> ResetPort]
    /\ held = {}
    /\ interface = {}
    /\ erased = {}

\* An application that drives one UART or one USART (every instance is an
\* expansion of the same uart! / usart! body)
Init == \E p \in {"UART2", "USART0"} : Reset({p})

\* An application about to construct the driver of any one instance
InitCtor == \E p \in Periphs : Reset({p})

\* The accesses `accs` happen, in order, on registers `rg`
Perform(rg, accs) ==
    /\ log' = accs
    /\ reg' = RegsAfter(rg, accs)
    /\ pmc' = PmcAfterAll(pmc, accs)

\* What the hardware of peripheral p can present when the program next looks:
\* status flags rise and fall and a character arrives on their own, except
\* that the error flags are latched (they fall only by RSTSTA) and RHR
\* changes only with a character that is ready.
Hw(p) ==
    {h \in [SR : SUBSET Flags, RHR : Chars(p) \cup {reg[p].RHR}] :
        /\ reg[p].SR \cap ErrFlags \subseteq h.SR
        /\ "RXRDY" \notin h.SR => h.RHR = reg[p].RHR}

\* The registers as a call on p finds them
Found(p, h) == [reg EXCEPT ![p].SR = h.SR, ![p].RHR = h.RHR]

-----------------------------------------------------------------------------
(* Actions *)

\* A constructor call with pins the where-clauses accept.  The peripheral
\* instance and the pins move into the Serial value; a panic inside
\* configure halts the program (panic_halt) with the driver never built.
Construct(ctor, p, pins, config, overflow_checks) ==
    /\ pc = "run"
    /\ p \in owned
    /\ ctor \in {FullCtor(p), TxCtor(p), RxCtor(p)}
    /\ Admits(ctor, p, pins)
    /\ LET out == CtorBody(ctor, p, config, overflow_checks)
       IN  /\ Perform(reg, out.accs)
           /\ owned' = owned \ {p}
           /\ serial' = IF out.panic THEN serial
                        ELSE serial \cup {[uart |-> p, pins |-> pins]}
           /\ pc' = IF out.panic THEN "halt" ELSE "run"
           /\ ret' = Ret(ctor, "-", p, config.baud_rate,
                         IF out.panic THEN "panic" ELSE "Ok", "", 0, pins)
    /\ UNCHANGED <<tx, rx, ws>>

\* A constructor call with pins the where-clauses do not accept: the call
\* does not type-check, so nothing of it runs.
Reject(ctor, p, pins) ==
    /\ pc = "run"
    /\ p \in owned
    /\ ctor \in {FullCtor(p), TxCtor(p), RxCtor(p)}
    /\ ~Admits(ctor, p, pins)
    /\ ret' = Ret(ctor, "-", p, 0, "rejected", "", 0, pins)
    /\ log' = <<>>
    /\ UNCHANGED <<owned, serial, tx, rx, reg, pmc, pc, ws>>

\* One call of a transport operation on p, which finds the hardware as h,
\* returns `out`
Return(op, on, p, arg, h, out) ==
    /\ Perform(Found(p, h), out.accs)
    /\ ret' = Ret(op, on, p, arg, out.tag, out.err, out.val, <<Unit, Unit>>)
    /\ UNCHANGED <<owned, serial, tx, rx, pc, ws>>

\* Read for Serial without the bound on RXPIN
Serial_read_unbounded(s, h) ==
    /\ pc = "run"
    /\ s \in serial
    /\ Return("read", "Serial", s.uart, 0, h,
              ReadOf("Serial", s.uart, Found(s.uart, h)[s.uart]))

\* Read for Serial, where RXPIN: RxPin<$UART>
Serial_read(s, h) ==
    /\ pc = "run"
    /\ s \in serial
    /\ s.pins[2] \in RxPin(s.uart)
    /\ Return("read", "Serial", s.uart, 0, h,
              ReadOf("Serial", s.uart, Found(s.uart, h)[s.uart]))

\* Read for Rx
Rx_read(p, h) ==
    /\ pc = "run"
    /\ p \in rx
    /\ Return("read", "Rx", p, 0, h, ReadOf("Rx", p, Found(p, h)[p]))

\* Write for Serial, where TXPIN: TxPin<$UART>: write
Serial_write(s, h, x) ==
    /\ pc = "run"
    /\ s \in serial
    /\ s.pins[1] \in TxPin(s.uart)
    /\ Return("write", "Serial", s.uart, x, h,
              WriteOf("Serial", s.uart, Found(s.uart, h)[s.uart], x))

\* Write for Tx: write
Tx_write(p, h, x) ==
    /\ pc = "run"
    /\ p \in tx
    /\ Return("write", "Tx", p, x, h, WriteOf("Tx", p, Found(p, h)[p], x))

\* Write for Serial, where TXPIN: TxPin<$UART>: flush
Serial_flush(s, h) ==
    /\ pc = "run"
    /\ s \in serial
    /\ s.pins[1] \in TxPin(s.uart)
    /\ Return("flush", "Serial", s.uart, 0, h,
              FlushOf("Serial", s.uart, Found(s.uart, h)[s.uart]))

\* Write for Tx: flush
Tx_flush(p, h) ==
    /\ pc = "run"
    /\ p \in tx
    /\ Return("flush", "Tx", p, 0, h, FlushOf("Tx", p, Found(p, h)[p]))

\* A split without the bounds on the pin types
split_unbounded(s) ==
    /\ pc = "run"
    /\ s \in serial
    /\ serial' = serial \ {s}
    /\ tx' = tx \cup {s.uart}
    /\ rx' = rx \cup {s.uart}
    /\ Perform(reg, <<>>)
    /\ ret' = Ret("split", "Serial", s.uart, 0, "Ok", "", 0, <<Unit, Unit>>)
    /\ UNCHANGED <<owned, pc, ws>>

\* A split that resets and disables the peripheral before handing out the
\* halves
split_resetting(s) ==
    /\ pc = "run"
    /\ s \in serial
    /\ s.pins[1] \in TxPin(s.uart)
    /\ s.pins[2] \in RxPin(s.uart)
    /\ serial' = serial \ {s}
    /\ tx' = tx \cup {s.uart}
    /\ rx' = rx \cup {s.uart}
    /\ Perform(reg, <<Access("w", s.uart, "CR", ResetBits, 0)>>)
    /\ ret' = Ret("split", "Serial", s.uart, 0, "Ok", "", 0, <<Unit, Unit>>)
    /\ UNCHANGED <<owned, pc, ws>>

\* Serial::split, where TXPIN: TxPin<UART>, RXPIN: RxPin<UART>: the driver
\* (peripheral instance and pins) is consumed, two handles are returned
split(s) ==
    /\ pc = "run"
    /\ s \in serial
    /\ s.pins[1] \in TxPin(s.uart)
    /\ s.pins[2] \in RxPin(s.uart)
    /\ serial' = serial \ {s}
    /\ tx' = tx \cup {s.uart}
    /\ rx' = rx \cup {s.uart}
    /\ Perform(reg, <<>>)
    /\ ret' = Ret("split", "Serial", s.uart, 0, "Ok", "", 0, <<Unit, Unit>>)
    /\ UNCHANGED <<owned, pc, ws>>

\* A release that hands back the pins of a driver it leaves in place
release_borrowing(s) ==
    /\ pc = "run"
    /\ s \in serial
    /\ serial' = serial
    /\ Perform(reg, <<>>)
    /\ ret' = Ret("release", "Serial", s.uart, 0, "Ok", "", 0, s.pins)
    /\ UNCHANGED <<owned, tx, rx, pc, ws>>

\* Serial::release: the driver is consumed, self.pins is returned
release(s) ==
    /\ pc = "run"
    /\ s \in serial
    /\ serial' = serial \ {s}
    /\ Perform(reg, <<>>)
    /\ ret' = Ret("release", "Serial", s.uart, 0, "Ok", "", 0, s.pins)
    /\ UNCHANGED <<owned, tx, rx, pc, ws>>

\* Longest string handed to write_str
MaxStrLen == 2

\* The text whose prefixes are handed to write_str
Text == <<72, 105, 72, 105>>

Strings == {SubSeq(Text, 1, n) : n \in 0..MaxStrLen}

\* Receivers that implement Write: an un-split driver with a Tx pin, a Tx half
Writers ==
    {<<"Serial", s.uart>> : s \in {d \in serial : d.pins[1] \in TxPin(d.uart)}}
    \cup {<<"Tx", p>> : p \in tx}

\* core::fmt::Write::write_str is entered: try_for_each over the bytes of s.
\* With no byte to send it returns Ok(()) at once.
write_str(w, s) ==
    /\ pc = "run"
    /\ w \in Writers
    /\ Perform(reg, <<>>)
    /\ IF s = <<>>
       THEN /\ pc' = "run"
            /\ ws' = NoWriteStr
            /\ ret' = Ret("write_str", w[1], w[2], 0, "Ok", "", 0, <<Unit, Unit>>)
       ELSE /\ pc' = "write_str"
            /\ ws' = [on |-> w[1], p |-> w[2], todo |-> s, sent |-> <<>>]
            /\ ret' = Ret("write_str", w[1], w[2], 0, "running", "", 0, <<Unit, Unit>>)
    /\ UNCHANGED <<owned, serial, tx, rx>>

\* A write_str that gives up with an error when a byte cannot be sent at
\* once, instead of polling again
write_str_poll_once(h) ==
    /\ pc = "write_str"
    /\ LET out == WriteOf(ws.on, ws.p, Found(ws.p, h)[ws.p], Head(ws.todo))
           last == Len(ws.todo) = 1
       IN  /\ Perform(Found(ws.p, h), out.accs)
           /\ IF out.tag = "Ok"
              THEN /\ ws' = IF last THEN NoWriteStr
                            ELSE [ws EXCEPT !.todo = Tail(@),
                                            !.sent = Append(@, Head(ws.todo))]
                   /\ pc' = IF last THEN "run" ELSE "write_str"
                   /\ ret' = Ret("write_str", ws.on, ws.p, 0,
                                 IF last THEN "Ok" ELSE "running", "", 0,
                                 <<Unit, Unit>>)
              ELSE /\ ws' = NoWriteStr
                   /\ pc' = "run"
                   /\ ret' = Ret("write_str", ws.on, ws.p, 0, "Err", "fmt::Error",
                                 0, <<Unit, Unit>>)
    /\ UNCHANGED <<owned, serial, tx, rx>>

\* A write_str that drops a byte the transmitter is not ready for and moves
\* on to the next
write_str_poll_skipping(h) ==
    /\ pc = "write_str"
    /\ LET out == WriteOf(ws.on, ws.p, Found(ws.p, h)[ws.p], Head(ws.todo))
           last == Len(ws.todo) = 1
       IN  /\ Perform(Found(ws.p, h), out.accs)
           /\ ws' = IF last THEN NoWriteStr
                     ELSE [ws EXCEPT !.todo = Tail(@),
                                     !.sent = Append(@, Head(ws.todo))]
           /\ pc' = IF last THEN "run" ELSE "write_str"
           /\ ret' = Ret("write_str", ws.on, ws.p, 0,
                         IF last THEN "Ok" ELSE "running", "", 0,
                         <<Unit, Unit>>)
    /\ UNCHANGED <<owned, serial, tx, rx>>

\* One turn of nb::block!(self.write(*c)) inside write_str: on WouldBlock the
\* loop calls write again, on Ok the iteration moves to the next byte and
\* write_str returns Ok(()) after the last one.
write_str_poll(h) ==
    /\ pc = "write_str"
    /\ LET out == WriteOf(ws.on, ws.p, Found(ws.p, h)[ws.p], Head(ws.todo))
           last == Len(ws.todo) = 1
       IN  /\ Perform(Found(ws.p, h), out.accs)
           /\ IF out.tag = "Ok"
              THEN /\ ws' = IF last THEN NoWriteStr
                            ELSE [ws EXCEPT !.todo = Tail(@),
                                            !.sent = Append(@, Head(ws.todo))]
                   /\ pc' = IF last THEN "run" ELSE "write_str"
                   /\ ret' = Ret("write_str", ws.on, ws.p, 0,
                                 IF last THEN "Ok" ELSE "running", "", 0,
                                 <<Unit, Unit>>)
              ELSE /\ UNCHANGED <<ws, pc>>
                   /\ ret' = Ret("write_str", ws.on, ws.p, 0, "running", "", 0,
                                 <<Unit, Unit>>)
    /\ UNCHANGED <<owned, serial, tx, rx>>

\* Byte transport of a driver built with admissible pins
Next ==
    \/ /\ \E p \in owned : \E tp \in Offered(p), rp \in Offered(p) :
             \E c \in {FullCtor(p), TxCtor(p), RxCtor(p)} :
                /\ Admits(c, p, <<tp, rp>>)
                /\ \E cfg \in TransportConfigs(p) : Construct(c, p, <<tp, rp>>, cfg, TRUE)
       /\ UNCHANGED elsewhere
    \/ /\ \E s \in serial : \E h \in Hw(s.uart) : Serial_read(s, h)
       /\ UNCHANGED elsewhere
    \/ /\ \E p \in rx : \E h \in Hw(p) : Rx_read(p, h)
       /\ UNCHANGED elsewhere
    \/ /\ \E s \in serial : \E h \in Hw(s.uart), x \in Words(s.uart) : Serial_write(s, h, x)
       /\ UNCHANGED elsewhere
    \/ /\ \E p \in tx : \E h \in Hw(p), x \in Words(p) : Tx_write(p, h, x)
       /\ UNCHANGED elsewhere
    \/ /\ \E s \in serial : \E h \in Hw(s.uart) : Serial_flush(s, h)
       /\ UNCHANGED elsewhere
    \/ /\ \E p \in tx : \E h \in Hw(p) : Tx_flush(p, h)
       /\ UNCHANGED elsewhere
    \/ /\ \E s \in serial : split(s)
       /\ UNCHANGED elsewhere
    \/ /\ \E s \in serial : release(s)
       /\ UNCHANGED elsewhere
    \/ /\ \E w \in Writers, s \in Strings : write_str(w, s)
       /\ UNCHANGED elsewhere
    \/ /\ pc = "write_str" /\ \E h \in Hw(ws.p) : write_str_poll(h)
       /\ UNCHANGED elsewhere

Spec == Init /\ [][Next]_vars

\* Construction: every constructor of every instance, with every offered
\* pin pair and configuration, in both build profiles
NextCtor ==
    \/ /\ \E p \in owned : \E tp \in Offered(p), rp \in Offered(p) :
             \E c \in {FullCtor(p), TxCtor(p), RxCtor(p)} :
                /\ Admits(c, p, <<tp, rp>>)
                /\ \E cfg \in Configs(p), overflow_checks \in BOOLEAN :
                      Construct(c, p, <<tp, rp>>, cfg, overflow_checks)
       /\ UNCHANGED elsewhere
    \/ /\ \E p \in owned : \E tp \in Offered(p), rp \in Offered(p) :
             \E c \in {FullCtor(p), TxCtor(p), RxCtor(p)} : Reject(c, p, <<tp, rp>>)
       /\ UNCHANGED elsewhere

SpecCtor == InitCtor /\ [][NextCtor]_vars

\* What the hardware can present while no character arrives on the receive
\* line: any transmitter and error flags, the receive holding register as
\* it was
HwIdleLine(p) == {h \in Hw(p) : "RXRDY" \notin h.SR}

\* write_str on a driver and on a Tx half, with a thread that keeps running
\* and a transmitter that does not stay busy for ever: a turn of the loop
\* that finds TXRDY set eventually comes
NextWriteStr ==
    \/ /\ \E p \in owned : \E tp \in TxPin(p), rp \in RxPin(p) \cup {Unit} :
             \E c \in {FullCtor(p), TxCtor(p)} :
                /\ Admits(c, p, <<tp, rp>>)
                /\ \E cfg \in TransportConfigs(p) : Construct(c, p, <<tp, rp>>, cfg, TRUE)
       /\ UNCHANGED elsewhere
    \/ /\ \E s \in serial : split(s)
       /\ UNCHANGED elsewhere
    \/ /\ \E w \in Writers, s \in Strings : write_str(w, s)
       /\ UNCHANGED elsewhere
    \/ /\ pc = "write_str" /\ \E h \in HwIdleLine(ws.p) : write_str_poll(h)
       /\ UNCHANGED elsewhere

\* A turn of the loop of write_str that finds the transmitter ready
ReadyPoll ==
    /\ pc = "write_str"
    /\ \E h \in HwIdleLine(ws.p) : "TXRDY" \in h.SR /\ write_str_poll(h)
    /\ UNCHANGED elsewhere

SpecWriteStr == Init /\ [][NextWriteStr]_vars /\ WF_vars(ReadyPoll)

\* What the hardware presents while the receive line is idle and free of
\* errors: only the transmitter flags move
HwQuiet(p) == {h \in HwIdleLine(p) : h.SR \cap ErrFlags = reg[p].SR \cap ErrFlags}

\* An application that holds two instances at once
InitOwner == Reset({"UART2", "USART0"})

\* Everything that makes, uses or gives up a driver or a half, on two
\* peripherals side by side, with quiet receive lines
NextOwner ==
    \/ /\ \E p \in owned : \E tp \in TxPin(p) \cup {Unit}, rp \in RxPin(p) \cup {Unit} :
             \E c \in {FullCtor(p), TxCtor(p), RxCtor(p)} :
                /\ Admits(c, p, <<tp, rp>>)
                /\ \E cfg \in TransportConfigs(p) : Construct(c, p, <<tp, rp>>, cfg, TRUE)
       /\ UNCHANGED elsewhere
    \/ /\ \E s \in serial : split(s)
       /\ UNCHANGED elsewhere
    \/ /\ \E s \in serial : release(s)
       /\ UNCHANGED elsewhere
    \/ /\ \E s \in serial : \E h \in HwQuiet(s.uart) : Serial_read(s, h)
       /\ UNCHANGED elsewhere
    \/ /\ \E p \in rx : \E h \in HwQuiet(p) : Rx_read(p, h)
       /\ UNCHANGED elsewhere
    \/ /\ \E s \in serial : \E h \in HwQuiet(s.uart), x \in Words(s.uart) : Serial_write(s, h, x)
       /\ UNCHANGED elsewhere
    \/ /\ \E p \in tx : \E h \in HwQuiet(p), x \in Words(p) : Tx_write(p, h, x)
       /\ UNCHANGED elsewhere
    \/ /\ \E s \in serial : \E h \in HwQuiet(s.uart) : Serial_flush(s, h)
       /\ UNCHANGED elsewhere
    \/ /\ \E p \in tx : \E h \in HwQuiet(p) : Tx_flush(p, h)
       /\ UNCHANGED elsewhere

SpecOwner == InitOwner /\ [][NextOwner]_vars

-----------------------------------------------------------------------------
(* The split driver beside the un-split driver: the program is run twice on
   the same hardware, once splitting the full-duplex driver and using its
   halves, once (in `twin`) calling the un-split driver *)

\* The registers rg as a call on p finds them
FoundIn(rg, p, h) == [rg EXCEPT ![p].SR = h.SR, ![p].RHR = h.RHR]

\* The un-split run makes the call whose outcome on its registers is `out`
TwinReturn(op, p, arg, h, out) ==
    twin' = [reg |-> RegsAfter(FoundIn(twin.reg, p, h), out.accs),
             ret |-> Ret(op, "Serial", p, arg, out.tag, out.err, out.val,
                         <<Unit, Unit>>),
             log |-> out.accs]

\* Both runs construct the full-duplex driver
Pair_construct(p, pins, config) ==
    /\ Construct(FullCtor(p), p, pins, config, TRUE)
    /\ twin' = [reg |-> reg', ret |-> ret', log |-> log']

\* One run splits; the other keeps its driver whole
Pair_split(s) ==
    /\ split(s)
    /\ UNCHANGED twin

\* write(x): on the Tx half in one run, on the un-split driver in the other
Pair_write(p, h, x) ==
    /\ Tx_write(p, h, x)
    /\ TwinReturn("write", p, x, h,
                  WriteOf("Serial", p, FoundIn(twin.reg, p, h)[p], x))

\* read: on the Rx half in one run, on the un-split driver in the other
Pair_read(p, h) ==
    /\ Rx_read(p, h)
    /\ TwinReturn("read", p, 0, h, ReadOf("Serial", p, FoundIn(twin.reg, p, h)[p]))

NextSplit ==
    \/ /\ \E p \in owned : \E tp \in TxPin(p), rp \in RxPin(p) :
             \E cfg \in TransportConfigs(p) : Pair_construct(p, <<tp, rp>>, cfg)
       /\ UNCHANGED <<pio, held, interface, erased>>
    \/ /\ \E s \in serial : Pair_split(s)
       /\ UNCHANGED <<pio, held, interface, erased>>
    \/ /\ \E p \in tx : \E h \in Hw(p), x \in Words(p) : Pair_write(p, h, x)
       /\ UNCHANGED <<pio, held, interface, erased>>
    \/ /\ \E p \in rx : \E h \in Hw(p) : Pair_read(p, h)
       /\ UNCHANGED <<pio, held, interface, erased>>

SpecSplit == Init /\ [][NextSplit]_vars

-----------------------------------------------------------------------------
(* The two halves used side by side: a call on the Tx half and a call on the
   Rx half, made back to back on the hardware as it stands, in one order in
   this run and in the other order in `twin` *)

\* A call on the Tx half: write(x) or flush()
TxOf(op, p, b, x) == IF op = "write" THEN WriteOf("Tx", p, b, x) ELSE FlushOf("Tx", p, b)

\* The Tx-half call `op` then the Rx-half read in this run, the read then
\* the Tx-half call in the other; the hardware presents h to the pair.
\* twin.ret keeps the outcomes <<Tx call, Rx call>> of each order.
Halves(p, h, op, x) ==
    /\ pc = "run"
    /\ p \in tx /\ p \in rx
    /\ LET f  == Found(p, h)
           a1 == TxOf(op, p, f[p], x)
           r1 == RegsAfter(f, a1.accs)
           b1 == ReadOf("Rx", p, r1[p])
           b2 == ReadOf("Rx", p, f[p])
           s1 == RegsAfter(f, b2.accs)
           a2 == TxOf(op, p, s1[p], x)
       IN  /\ Perform(f, a1.accs \o b1.accs)
           /\ ret' = Ret(op, "Tx;Rx", p, x, b1.tag, b1.err, b1.val,
                         <<Unit, Unit>>)
           /\ twin' = [reg |-> RegsAfter(s1, a2.accs),
                       ret |-> [tx_first |-> <<a1, b1>>, rx_first |-> <<a2, b2>>],
                       log |-> b2.accs \o a2.accs]
    /\ UNCHANGED <<owned, serial, tx, rx, pc, ws>>

NextHalves ==
    \/ /\ \E p \in owned : \E tp \in TxPin(p), rp \in RxPin(p) :
             \E cfg \in TransportConfigs(p) : Pair_construct(p, <<tp, rp>>, cfg)
       /\ UNCHANGED <<pio, held, interface, erased>>
    \/ /\ \E s \in serial : Pair_split(s)
       /\ UNCHANGED <<pio, held, interface, erased>>
    \/ /\ \E p \in tx \cap rx : \E h \in Hw(p), op \in {"write", "flush"}, x \in Words(p) :
             Halves(p, h, op, x)
       /\ UNCHANGED <<pio, held, interface, erased>>

SpecHalves == Init /\ [][NextHalves]_vars

-----------------------------------------------------------------------------
(* The crate root (src/lib.rs): an earlier driver, Serial<INTERFACE> over
   UART0, with set_config on the peripheral and Write<u8> for Serial<UART0>.
   Its Read impl is left out: its body has no value on the RXRDY path. *)

\* UartConfig<UART0> for UART0: set_config - CR enable, MR, then BRGR
\* loaded with the baud rate itself
lib_set_config(p, config) ==
    <<Access("w", p, "CR", {"TXEN", "RXEN"}, 0),
      Access("w", p, "MR",
             {get_mode(config.channel_mode), get_parity(config.parity),
              IF config.digital_filter THEN "filter=1" ELSE "filter=0"}, 0),
      Access("w", p, "BRGR", {}, config.baud_rate)>>

\* Write<u8> for Serial<UART0>: write - the receive error flags are tested
\* first, then TXRDY
lib_Serial_write(p, b, word) ==
    LET status_register == b.SR
        sr == Access("r", p, "SR", status_register, 0)
    IN  IF "OVRE" \in status_register THEN Err("Overrun", <<sr>>)
        ELSE IF "FRAME" \in status_register THEN Err("Framing", <<sr>>)
        ELSE IF "PARE" \in status_register THEN Err("Parity", <<sr>>)
        ELSE IF "TXRDY" \in status_register
             THEN Ok(0, <<sr, Access("w", p, "THR", {}, word)>>)
        ELSE WouldBlock(<<sr>>)

\* Write<u8> for Serial<UART0>: flush - one turn of
\* `while status_register.read().txempty().bit_is_set() { nop }`; `again`
\* says the loop goes round once more, otherwise flush returns Ok(())
lib_Serial_flush(p, b) ==
    LET status_register == b.SR
        sr == Access("r", p, "SR", status_register, 0)
    IN  [again |-> "TXEMPTY" \in status_register, out |-> Ok(0, <<sr>>)]

\* UART0.set_config(config), called on the peripheral the application holds
set_config(p, config) ==
    /\ pc = "run"
    /\ p \in owned
    /\ Perform(reg, lib_set_config(p, config))
    /\ ret' = Ret("set_config", "UART0", p, config.baud_rate, "Ok", "", 0,
                  <<Unit, Unit>>)
    /\ UNCHANGED <<owned, serial, tx, rx, pc, ws, interface, erased>>

\* Serial { interface: p }: the peripheral moves into the driver value
lib_Serial(p) ==
    /\ pc = "run"
    /\ p \in owned
    /\ owned' = owned \ {p}
    /\ interface' = interface \cup {p}
    /\ Perform(reg, <<>>)
    /\ ret' = Ret("Serial", "lib::Serial", p, 0, "Ok", "", 0, <<Unit, Unit>>)
    /\ UNCHANGED <<serial, tx, rx, pc, ws>>

\* serial.write(word) on the crate-root driver
lib_write(p, h, word) ==
    /\ pc = "run"
    /\ p \in interface
    /\ Return("write", "lib::Serial", p, word, h,
              lib_Serial_write(p, Found(p, h)[p], word))
    /\ UNCHANGED <<interface, erased>>

\* serial.flush() on the crate-root driver: each turn of its loop is one
\* step; while it loops the thread is inside flush
lib_flush(p, h) ==
    /\ pc \in {"run", "flush"}
    /\ p \in interface
    /\ LET turn == lib_Serial_flush(p, Found(p, h)[p])
       IN  /\ Perform(Found(p, h), turn.out.accs)
           /\ pc' = IF turn.again THEN "flush" ELSE "run"
           /\ ret' = Ret("flush", "lib::Serial", p, 0,
                         IF turn.again THEN "running" ELSE "Ok", "", 0,
                         <<Unit, Unit>>)
    /\ UNCHANGED <<owned, serial, tx, rx, ws, interface, erased>>

\* An application that holds UART0 and uses the crate-root driver
InitLib == Reset({"UART0"})

NextLib ==
    \/ /\ \E p \in owned : \E cfg \in TransportConfigs(p) : set_config(p, cfg)
       /\ UNCHANGED <<twin, pio, held, erased>>
    \/ /\ \E p \in owned : lib_Serial(p)
       /\ UNCHANGED <<twin, pio, held, erased>>
    \/ /\ \E p \in interface : \E h \in Hw(p), x \in Words(p) : lib_write(p, h, x)
       /\ UNCHANGED <<twin, pio, held, erased>>
    \/ /\ \E p \in interface : \E h \in Hw(p) : lib_flush(p, h)
       /\ UNCHANGED <<twin, pio, held, erased>>

SpecLib == InitLib /\ [][NextLib]_vars

-----------------------------------------------------------------------------
(* Pins (gpio.rs): the port split and the typestate transitions of the pin
   values, and the serial constructors fed with the pins made there *)

\* Parts { $pxi: $PXi { _mode: PhantomData }, ... }: one value per row of
\* the table, each in the row's $MODE
Parts(port) == {<<pin, "Input<Floating>">> : pin \in PinsOf(port)}

\* const MASK: u32 = 1
MASK == U32(1)

\* _set_alternate_mode with value1 taken from the low bit as well
set_alternate_mode_low_bit(port, index, mode, io) ==
    LET value0 == And32(U32(mode), MASK)
        value1 == And32(U32(mode), MASK)
    IN  <<Access("r", port, "ABCDSR1", io[port].ABCDSR1, 0),
          Access("w", port, "ABCDSR1", Shl32(value0, index), 0),
          Access("r", port, "ABCDSR2", io[port].ABCDSR2, 0),
          Access("w", port, "ABCDSR2", Shl32(value1, index), 0)>>

\* _set_alternate_mode(index, mode): each modify reads the register and
\* writes w.bits(value << index), the whole register
set_alternate_mode(port, index, mode, io) ==
    LET value0 == And32(U32(mode), MASK)
        value1 == And32(Shr32(U32(mode), 1), MASK)
    IN  <<Access("r", port, "ABCDSR1", io[port].ABCDSR1, 0),
          Access("w", port, "ABCDSR1", Shl32(value0, index), 0),
          Access("r", port, "ABCDSR2", io[port].ABCDSR2, 0),
          Access("w", port, "ABCDSR2", Shl32(value1, index), 0)>>

\* GpioExt::split(self, pmc): the port's clock is switched on and the port
\* instance is consumed; of the pins in Parts the application keeps `keep`
GpioExt_split(port, keep) ==
    /\ pc = "run"
    /\ port \in owned
    /\ owned' = owned \ {port}
    /\ held' = held \cup {v \in Parts(port) : v[1] \in keep}
    /\ Perform(reg, <<Access("w", "PMC", "PCER0", {PortPid(port)}, 0)>>)
    /\ ret' = Ret("split", port, port, 0, "Ok", "", 0, <<Unit, Unit>>)
    /\ UNCHANGED <<serial, tx, rx, pc, ws, pio, twin, interface, erased>>

\* A pin method that leaves the value it was called on alive
PinReturn_copying(op, v, arg, accs, tag) ==
    /\ pc = "run"
    /\ v \in held
    /\ held' = held \cup {<<v[1], tag>>}
    /\ log' = accs
    /\ pio' = PioAfterAll(pio, accs)
    /\ ret' = Ret(op, "Pin", v[1], arg, "Ok", "", 0, <<<<v[1], tag>>, Unit>>)
    /\ UNCHANGED <<owned, serial, tx, rx, reg, pmc, pc, ws, twin, interface,
                   erased>>

\* A method of $PXi<MODE> taking self: the value v is consumed, the accesses
\* accs are made and the pin is returned with mode tag `tag`
PinReturn(op, v, arg, accs, tag) ==
    /\ pc = "run"
    /\ v \in held
    /\ held' = (held \ {v}) \cup {<<v[1], tag>>}
    /\ log' = accs
    /\ pio' = PioAfterAll(pio, accs)
    /\ ret' = Ret(op, "Pin", v[1], arg, "Ok", "", 0, <<<<v[1], tag>>, Unit>>)
    /\ UNCHANGED <<owned, serial, tx, rx, reg, pmc, pc, ws, twin, interface,
                   erased>>

\* 1 << $i
Bit(v) == Shl32(U32(1), Index(v[1]))

\* $PXi<MODE>::enable
enable(v) ==
    PinReturn("enable", v, 0,
              <<Access("w", PortOf(v[1]), "PER", Bit(v), 0)>>, v[2])

\* A disable that writes the enable register instead
disable_by_enable(v) ==
    PinReturn("disable", v, 0,
              <<Access("w", PortOf(v[1]), "PER", Bit(v), 0)>>, v[2])

\* $PXi<MODE>::disable
disable(v) ==
    PinReturn("disable", v, 0,
              <<Access("w", PortOf(v[1]), "PDR", Bit(v), 0)>>, v[2])

\* $PXi<MODE>::into_alternate_af0 .. into_alternate_af3
into_alternate(v, n) ==
    PinReturn("into_alternate", v, n,
              set_alternate_mode(PortOf(v[1]), Index(v[1]), n, pio),
              CASE n = 0 -> "AF0" [] n = 1 -> "AF1" [] n = 2 -> "AF2"
                [] n = 3 -> "AF3")

\* $PXi<MODE>::into_pull_down_input
into_pull_down_input(v) ==
    PinReturn("into_pull_down_input", v, 0,
              <<Access("w", PortOf(v[1]), "PPDER", Bit(v), 0)>>,
              "Input<PullDown>")

\* $PXi<MODE>::into_pull_up_input
into_pull_up_input(v) ==
    PinReturn("into_pull_up_input", v, 0,
              <<Access("w", PortOf(v[1]), "PUER", Bit(v), 0)>>,
              "Input<PullUp>")

\* $PXi<MODE>::into_output
into_output(v) ==
    PinReturn("into_output", v, 0,
              <<Access("w", PortOf(v[1]), "OER", Bit(v), 0)>>,
              "Output<OpenDrain>")

\* A serial constructor called with pin values the application holds (or ()
\* for a direction it leaves out): the values move into the driver
Serial_new(ctor, p, pins, config) ==
    /\ \A k \in 1..2 : pins[k] \in held \cup {Unit}
    /\ Construct(ctor, p, pins, config, TRUE)
    /\ held' = held \ {pins[1], pins[2]}
    /\ UNCHANGED <<pio, twin, interface, erased>>

\* Serial::release with the pins handed back to the application
Serial_release(s) ==
    /\ release(s)
    /\ held' = held \cup ({s.pins[1], s.pins[2]} \ {Unit})
    /\ UNCHANGED <<pio, twin, interface, erased>>

\* The pins the example hands to the serial driver
SerialLines == {"PD25", "PD26"}

\* The pins an application keeps of a split port: any one pin, or the two
\* serial lines
Kept(port) == {{pin} : pin \in PinsOf(port)} \cup {SerialLines}

\* The pins an application makes plain inputs and outputs: those that are
\* not its serial lines
Plain(pins) == {v \in pins : v[1] \notin SerialLines}

\* An application that holds port D and the two UARTs PD26 can serve
InitGpio == Reset({"PIOD", "UART1", "UART2"})

NextGpio ==
    \/ \E port \in owned \cap Ports : \E keep \in Kept(port) :
          GpioExt_split(port, keep)
    \/ \E v \in held : enable(v)
    \/ \E v \in held : disable(v)
    \/ \E v \in held : \E n \in 0..3 : into_alternate(v, n)
    \/ \E v \in Plain(held) : into_pull_down_input(v)
    \/ \E v \in Plain(held) : into_pull_up_input(v)
    \/ \E v \in Plain(held) : into_output(v)
    \/ \E p \in owned \cap Periphs : \E tp \in held \cup {Unit}, rp \in held \cup {Unit} :
          \E c \in {FullCtor(p), TxCtor(p), RxCtor(p)}, cfg \in TransportConfigs(p) :
             Serial_new(c, p, <<tp, rp>>, cfg)
    \/ \E s \in serial : Serial_release(s)

SpecGpio == InitGpio /\ [][NextGpio]_vars

-----------------------------------------------------------------------------
(* Pin input and output (gpio.rs): the GpioRegExt methods of a port's
   register block, called through a pin $PXi<MODE> and through the
   type-erased handle Pin<MODE> that downgrade makes of it.  From the
   downgrade on, `twin` is the run that kept the pin: [held, pio, ret, log] *)

\* A bool as an operation returns it
Bool(v) == IF v THEN 1 ELSE 0

\* GpioRegExt::is_low(pos): self.pdsr.read().bits() & (1 << pos) == 0, where
\* the pin data status register reads pdsr
GpioRegExt_is_low(port, pos, pdsr) ==
    [val |-> Bool(And32(pdsr, Shl32(U32(1), pos)) = {}),
     accs |-> <<Access("r", port, "PDSR", pdsr, 0)>>]

\* GpioRegExt::is_set_low(pos): self.odsr.read().bits() & (1 << pos) == 0
GpioRegExt_is_set_low(port, pos, io) ==
    [val |-> Bool(And32(io[port].ODSR, Shl32(U32(1), pos)) = {}),
     accs |-> <<Access("r", port, "ODSR", io[port].ODSR, 0)>>]

\* GpioRegExt::set_high(pos): sodr.write_with_zero(|w| w.bits(1 << pos))
GpioRegExt_set_high(port, pos) ==
    [val |-> 0, accs |-> <<Access("w", port, "SODR", Shl32(U32(1), pos), 0)>>]

\* GpioRegExt::set_low(pos): codr.write_with_zero(|w| w.bits(1 << pos))
GpioRegExt_set_low(port, pos) ==
    [val |-> 0, accs |-> <<Access("w", port, "CODR", Shl32(U32(1), pos), 0)>>]

\* The InputPin, OutputPin and StatefulOutputPin methods over the register
\* block of `port` at position pos: is_high and is_set_high are
\* is_low().map(|v| !v) and is_set_low().map(|v| !v)
PinMethod(op, port, pos, io, pdsr) ==
    CASE op = "is_low"      -> GpioRegExt_is_low(port, pos, pdsr)
      [] op = "is_high"     ->
            [GpioRegExt_is_low(port, pos, pdsr) EXCEPT !.val = 1 - @]
      [] op = "is_set_low"  -> GpioRegExt_is_set_low(port, pos, io)
      [] op = "is_set_high" ->
            [GpioRegExt_is_set_low(port, pos, io) EXCEPT !.val = 1 - @]
      [] op = "set_high"    -> GpioRegExt_set_high(port, pos)
      [] op = "set_low"     -> GpioRegExt_set_low(port, pos)

\* The methods implemented for a mode tag, the same for $PXi<MODE> and for
\* Pin<MODE>: InputPin for Input<MODE> and for Output<OpenDrain>, OutputPin
\* and StatefulOutputPin for Output<MODE>
MethodsOf(mode) ==
    CASE mode \in {"Input<Floating>", "Input<PullDown>", "Input<PullUp>"}
              -> {"is_low", "is_high"}
      [] mode = "Output<OpenDrain>"
              -> {"is_low", "is_high", "is_set_low", "is_set_high", "set_high",
                  "set_low"}
      [] OTHER -> {}

\* A method of $PXi<MODE>: (*$GPIOX::ptr()).method($i)
PXi_method(op, pin, io, pdsr) == PinMethod(op, PortOf(pin), Index(pin), io, pdsr)

\* A method of Pin<MODE>: (*self.port).method(self.i)
Pin_method(op, e, io, pdsr) == PinMethod(op, e.port, e.i, io, pdsr)

\* A downgrade that forgets the position of the pin
downgrade_first_line(v) ==
    /\ pc = "run"
    /\ v \in held
    /\ MethodsOf(v[2]) # {}
    /\ held' = held \ {v}
    /\ erased' = erased \cup {[i |-> 0, port |-> PortOf(v[1]), mode |-> v[2]]}
    /\ log' = <<>>
    /\ ret' = Ret("downgrade", "Pin", v[1], 0, "Ok", "", 0, <<v, Unit>>)
    /\ UNCHANGED <<owned, serial, tx, rx, reg, pmc, pc, ws, pio, interface>>

\* $PXi<Input<MODE>>::downgrade and $PXi<Output<MODE>>::downgrade:
\* Pin { i: $i, port: $GPIOX::ptr(), _mode: self._mode }
downgrade(v) ==
    /\ pc = "run"
    /\ v \in held
    /\ MethodsOf(v[2]) # {}
    /\ held' = held \ {v}
    /\ erased' = erased \cup {[i |-> Index(v[1]), port |-> PortOf(v[1]),
                                mode |-> v[2]]}
    /\ log' = <<>>
    /\ ret' = Ret("downgrade", "Pin", v[1], 0, "Ok", "", 0, <<v, Unit>>)
    /\ UNCHANGED <<owned, serial, tx, rx, reg, pmc, pc, ws, pio, interface>>

\* An input or output method called on the pin value v
PXi_call(v, op, pdsr) ==
    /\ pc = "run"
    /\ v \in held
    /\ op \in MethodsOf(v[2])
    /\ LET out == PXi_method(op, v[1], pio, pdsr)
       IN  /\ log' = out.accs
           /\ pio' = PioAfterAll(pio, out.accs)
           /\ ret' = Ret(op, "Pin", v[1], 0, "Ok", "", out.val, <<Unit, Unit>>)
    /\ UNCHANGED <<owned, serial, tx, rx, reg, pmc, pc, ws, twin, held,
                   interface, erased>>

\* An input or output method called on the handle e
Pin_call(e, op, pdsr) ==
    /\ pc = "run"
    /\ e \in erased
    /\ op \in MethodsOf(e.mode)
    /\ LET out == Pin_method(op, e, pio, pdsr)
       IN  /\ log' = out.accs
           /\ pio' = PioAfterAll(pio, out.accs)
           /\ ret' = Ret(op, "Pin<MODE>", e.port, e.i, "Ok", "", out.val,
                         <<Unit, Unit>>)
    /\ UNCHANGED <<owned, serial, tx, rx, reg, pmc, pc, ws, held, interface,
                   erased>>

\* This run downgrades the pin; the other run keeps it
Fork_downgrade(v) ==
    /\ downgrade(v)
    /\ twin' = [held |-> {v}, pio |-> pio, ret |-> ret', log |-> <<>>]

\* The method is called on the handle in this run and on the pin the other
\* run kept, the port's pin data reading pdsr in both
Fork_call(e, op, pdsr) ==
    /\ Pin_call(e, op, pdsr)
    /\ \E v \in twin.held :
          /\ op \in MethodsOf(v[2])
          /\ LET out == PXi_method(op, v[1], twin.pio, pdsr)
             IN  twin' = [held |-> twin.held,
                          pio |-> PioAfterAll(twin.pio, out.accs),
                          ret |-> Ret(op, "Pin", v[1], 0, "Ok", "", out.val,
                                      <<Unit, Unit>>),
                          log |-> out.accs]

\* What the pin data status register can read when pin i is looked at: the
\* levels of line i and of the line next to it
Levels(i) == SUBSET {i, (i + 1) % 32}

\* An application that holds port D and keeps one of its pins
InitPin == Reset({"PIOD"})

NextPin ==
    \/ \E port \in owned \cap Ports : \E pin \in PinsOf(port) :
          GpioExt_split(port, {pin})
    \/ \E v \in held : into_pull_down_input(v)
    \/ \E v \in held : into_pull_up_input(v)
    \/ \E v \in held : into_output(v)
    \/ \E v \in held : \E op \in MethodsOf(v[2]), pdsr \in Levels(Index(v[1])) :
          PXi_call(v, op, pdsr)
    \/ \E v \in held : Fork_downgrade(v)
    \/ \E e \in erased : \E op \in MethodsOf(e.mode), pdsr \in Levels(e.i) :
          Fork_call(e, op, pdsr)

SpecPin == InitPin /\ [][NextPin]_vars

\* ---------------------------------------------------------------------
\* Properties of the byte transport
\* ---------------------------------------------------------------------

\* The receive-side flags a read looks at
RxFlags == ErrFlags \cup {"RXRDY"}

\* The status word the last operation read
StatusRead == log[1].bits

\* The last operation read the status register of its peripheral first
PolledStatus ==
    /\ Len(log) >= 1
    /\ log[1].rw = "r" /\ log[1].reg = "SR" /\ log[1].blk = ret.p

\* C1: a read - on the un-split driver and on the Rx half, UART and USART -
\* tests the status flags in a fixed priority: Overrun if OVRE is set,
\* otherwise Framing if FRAME is set, otherwise Parity if PARE is set,
\* otherwise the received character if RXRDY is set, otherwise WouldBlock.
C1_ReadPriority ==
    ret.op = "read" =>
        /\ PolledStatus
        /\ ret.tag \in {"Ok", "Err", "WouldBlock"}
        /\ (ret.tag = "Err" /\ ret.err = "Overrun") <=> "OVRE" \in StatusRead
        /\ (ret.tag = "Err" /\ ret.err = "Framing")
              <=> ("FRAME" \in StatusRead /\ "OVRE" \notin StatusRead)
        /\ (ret.tag = "Err" /\ ret.err = "Parity")
              <=> ("PARE" \in StatusRead
                   /\ StatusRead \cap {"OVRE", "FRAME"} = {})
        /\ ret.tag = "Ok"
              <=> ("RXRDY" \in StatusRead /\ StatusRead \cap ErrFlags = {})
        /\ ret.tag = "WouldBlock" <=> StatusRead \cap RxFlags = {}

\* A read on an Rx half found every receive flag set and reported Overrun
C1_Witness ==
    /\ ret.op = "read" /\ ret.on = "Rx"
    /\ RxFlags \subseteq StatusRead
    /\ ret.tag = "Err" /\ ret.err = "Overrun"

\* C2: with RXRDY set and no error flag, read returns exactly the value
\* the receive holding register holds, and reads that register - which
\* clears RXRDY - in that branch only; a read that returns an error or
\* WouldBlock does not access RHR and leaves a pending character pending.
C2_ReadValue ==
    ret.op = "read" =>
        /\ StatusRead \cap RxFlags = {"RXRDY"} => ret.tag = "Ok"
        /\ ret.tag = "Ok" =>
              /\ ret.val = reg[ret.p].RHR
              /\ Len(log) = 2
              /\ log[2].rw = "r" /\ log[2].reg = "RHR" /\ log[2].blk = ret.p
              /\ "RXRDY" \notin reg[ret.p].SR
        /\ ret.tag # "Ok" =>
              /\ \A i \in DOMAIN log : log[i].reg # "RHR"
              /\ reg[ret.p].SR = StatusRead

\* A read returned the nine-bit character 300 from RHR, and readiness is
\* consumed
C2_Witness ==
    /\ ret.op = "read" /\ ret.tag = "Ok" /\ ret.val = 300
    /\ StatusRead \cap RxFlags = {"RXRDY"}
    /\ "RXRDY" \notin reg[ret.p].SR

\* The registers software can write, and the enables they drive
Writable(b) == <<b.CR, b.MR, b.BRGR, b.THR, b.TXEN, b.RXEN>>

\* C3: a read performs no register write, whatever it returns: it reads
\* the status register, and in the success branch RHR; CR, MR, BRGR and
\* THR of every peripheral, and the clock enables, are as they were.
C3_ReadWritesNothing ==
    [][ret'.op = "read" =>
          /\ \A i \in DOMAIN log' : log'[i].rw = "r"
          /\ \A q \in Periphs : Writable(reg'[q]) = Writable(reg[q])
          /\ pmc' = pmc]_vars

\* A read came back with an error while a word written earlier is in THR
C3_Witness ==
    /\ ret.op = "read" /\ ret.tag = "Err"
    /\ reg[ret.p].THR = 105

\* The writes among the register accesses of the last operation
WritesIn(accs) == {i \in DOMAIN accs : accs[i].rw = "w"}

\* C4: write(x) with TXRDY clear returns WouldBlock and does not write
\* THR; with TXRDY set it stores x in THR exactly once and returns Ok.
\* It touches no other register.  The un-split driver and the Tx half
\* behave alike.
C4_Write ==
    [][ret'.op = "write" =>
          LET p == ret'.p
              sr == log'[1].bits
          IN  /\ log'[1].rw = "r" /\ log'[1].reg = "SR" /\ log'[1].blk = p
              /\ IF "TXRDY" \in sr
                 THEN /\ ret'.tag = "Ok"
                      /\ WritesIn(log') = {2} /\ Len(log') = 2
                      /\ log'[2].reg = "THR" /\ log'[2].blk = p
                      /\ log'[2].num = ret'.arg
                      /\ reg'[p].THR = ret'.arg
                 ELSE /\ ret'.tag = "WouldBlock"
                      /\ WritesIn(log') = {}
                      /\ reg'[p].THR = reg[p].THR
              /\ \A q \in Periphs :
                    /\ q # p => reg'[q].THR = reg[q].THR
                    /\ reg'[q].CR = reg[q].CR /\ reg'[q].MR = reg[q].MR
                    /\ reg'[q].BRGR = reg[q].BRGR
                    /\ reg'[q].TXEN = reg[q].TXEN /\ reg'[q].RXEN = reg[q].RXEN
              /\ pmc' = pmc]_vars

\* A write on a Tx half was refused, and the earlier word 72 is still in THR
C4_Witness ==
    /\ ret.op = "write" /\ ret.on = "Tx" /\ ret.arg = 105
    /\ ret.tag = "WouldBlock" /\ reg[ret.p].THR = 72

Constructed == ret.op \in Ctors /\ ret.tag # "rejected"

\* C7: every constructor, UART and USART, in its three shapes, performs
\* exactly once and in this order: the PMC clock enable of the instance,
\* one CR write that resets and disables both directions, the MR write and
\* then the BRGR write, and the CR write that enables.  Stated of the
\* constructor calls that return.
C7_ConstructionProtocol ==
    (Constructed /\ ret.tag = "Ok") =>
        /\ Len(log) = 5
        /\ \A i \in 1..5 : log[i].rw = "w"
        /\ log[1].blk = "PMC" /\ log[1].reg = Pcer(ret.p)
        /\ log[1].bits = {PidBit(ret.p)}
        /\ \A i \in 2..5 : log[i].blk = ret.p
        /\ log[2].reg = "CR"
        /\ {"RSTRX", "RXDIS", "RSTTX", "TXDIS"} \subseteq log[2].bits
        /\ log[2].bits \cap {"TXEN", "RXEN"} = {}
        /\ log[3].reg = "MR"
        /\ log[4].reg = "BRGR"
        /\ log[5].reg = "CR"
        /\ log[5].bits # {} /\ log[5].bits \subseteq {"TXEN", "RXEN"}

\* The directions whose pins a constructor call was given
Supplied(pins) ==
    (IF pins[1] # Unit THEN {"TXEN"} ELSE {}) \cup
    (IF pins[2] # Unit THEN {"RXEN"} ELSE {})

\* C8: the final CR write of a constructor enables exactly the directions
\* whose pins were supplied; after a tx-only construction the receiver is
\* disabled, after an rx-only construction the transmitter is disabled.
C8_EnablesSuppliedDirections ==
    Constructed =>
        /\ ret.tag = "Ok" =>
              /\ log[Len(log)].rw = "w" /\ log[Len(log)].reg = "CR"
              /\ log[Len(log)].blk = ret.p
              /\ log[Len(log)].bits = Supplied(ret.pins)
              /\ reg[ret.p].TXEN <=> ret.pins[1] # Unit
              /\ reg[ret.p].RXEN <=> ret.pins[2] # Unit
        /\ ret.pins[2] = Unit => ~reg[ret.p].RXEN
        /\ ret.pins[1] = Unit => ~reg[ret.p].TXEN

\* A tx-only USART construction: transmitter enabled, receiver disabled
C8_Witness ==
    /\ ret.op = "usarttx" /\ ret.tag = "Ok"
    /\ reg[ret.p].TXEN /\ ~reg[ret.p].RXEN

\* Clock frequency the divisor of peripheral p is derived from
F(p) == IF p \in UARTs THEN UartClock ELSE UsartClock

\* C9: for every non-zero 16-bit baud rate B the value a constructor writes
\* to BRGR is floor(F / (16 * B)), with no wrap-around or truncation: F is
\* 150,000,000 for the UART (976 at B = 9600) and 12,000,000 for the USART.
C9_Divisor ==
    (Constructed /\ ret.arg # 0) =>
        /\ ret.tag = "Ok"
        /\ reg[ret.p].BRGR = F(ret.p) \div (16 * ret.arg)

\* The pins of a constructor call are in the capability relation for its
\* peripheral, each in the role the constructor's shape gives it
Capable(ctor, p, pins) ==
    LET txok == <<pins[1][1], pins[1][2], p, "Tx">> \in Capability
        rxok == <<pins[2][1], pins[2][2], p, "Rx">> \in Capability
    IN  CASE ctor \in {"uart", "usart"}     -> txok /\ rxok
          [] ctor \in {"uarttx", "usarttx"} -> txok /\ pins[2] = Unit
          [] ctor \in {"uartrx", "usartrx"} -> pins[1] = Unit /\ rxok

\* C10: a constructor call for peripheral P is taken only with pins whose
\* (pin, alternate function, P, role) is in the capability relation; with
\* any other pin, function or role it is rejected, and no register of P or
\* of the PMC is written.
C10_OnlyCapablePins ==
    [][ret'.op \in Ctors =>
          IF Capable(ret'.op, ret'.p, ret'.pins)
          THEN /\ ret'.tag \in {"Ok", "panic"}
               /\ ret'.p \in owned /\ ret'.p \notin owned'
          ELSE /\ ret'.tag = "rejected"
               /\ log' = <<>>
               /\ reg' = reg /\ pmc' = pmc
               /\ owned' = owned /\ serial' = serial]_vars

\* UART2's rx-only constructor, offered as its RX pin PD26 under AF2 - the
\* TX pin of UART2 - was rejected
C10_Witness ==
    /\ ret.op = "uartrx" /\ ret.p = "UART2" /\ ret.tag = "rejected"
    /\ ret.pins = <<Unit, <<"PD26", "AF2">> >>
    /\ log = <<>>

\* ---------------------------------------------------------------------
\* Properties of split and release
\* ---------------------------------------------------------------------

\* C11: after constructing a full-duplex driver and splitting it, write(x)
\* on the Tx half and read on the Rx half give the same results and the
\* same sequence of register reads and writes as write(x) and read on the
\* un-split driver, for every sequence of status-flag values; the
\* registers of the two runs stay equal.
C11_SplitEquivalence ==
    ret.op \in {"write", "read"} =>
        /\ ret.on \in {"Tx", "Rx"} /\ twin.ret.on = "Serial"
        /\ twin.ret.op = ret.op /\ twin.ret.p = ret.p
        /\ twin.ret.arg = ret.arg
        /\ twin.ret.tag = ret.tag /\ twin.ret.err = ret.err
        /\ twin.ret.val = ret.val
        /\ twin.log = log
        /\ twin.reg = reg

\* After a write of 105 on the Tx half, a read on the Rx half returned the
\* character 72, as did the read on the un-split driver
C11_Witness ==
    /\ ret.op = "read" /\ ret.on = "Rx" /\ ret.tag = "Ok" /\ ret.val = 72
    /\ reg[ret.p].THR = 105
    /\ twin.ret.on = "Serial" /\ twin.ret.val = 72 /\ Len(twin.log) = 2

\* C12: split reads and writes no register - the registers of the
\* peripheral, of the power-management controller and of the pin ports are
\* as before - and the two handles it returns address the peripheral
\* instance of the driver that was split.
C12_SplitFrame ==
    [][ret'.op = "split" =>
          /\ log' = <<>>
          /\ reg' = reg /\ pmc' = pmc /\ pio' = pio
          /\ \E s \in serial :
                /\ s.uart = ret'.p /\ s \notin serial'
                /\ tx' = tx \cup {s.uart} /\ rx' = rx \cup {s.uart}
                /\ s.uart \notin tx /\ s.uart \notin rx]_vars

\* A driver that had sent the word 105 was split: both halves exist, the
\* peripheral is still enabled and THR still holds the word
C12_Witness ==
    /\ ret.op = "split" /\ ret.p \in tx /\ ret.p \in rx
    /\ reg[ret.p].TXEN /\ reg[ret.p].RXEN
    /\ reg[ret.p].THR = 105

\* C13: release consumes the driver and returns the peripheral instance
\* and the (Tx pin, Rx pin) pair given to the constructor, so the caller
\* owns the peripheral again; it performs no register access.
C13_ReleaseReturnsParts ==
    ret.op = "release" =>
        /\ \A s \in serial : s.uart # ret.p
        /\ ret.p \in owned
        /\ ret.pins # <<Unit, Unit>>
        /\ log = <<>>

\* The driver value a call on the un-split driver of ret'.p is made on
Receiver(st, p) == {s \in st : s.uart = p}

\* C14: split is available only on a driver built by the full-duplex
\* constructor; a tx-only driver exposes write and flush but neither read
\* nor split, an rx-only driver exposes read but neither write, flush nor
\* split; the Tx half exposes only the write side and the Rx half only
\* read.
C14_Exposure ==
    [][/\ (ret'.on = "Serial" /\ ret'.op \in {"split", "read"}) =>
             \A s \in Receiver(serial, ret'.p) : s.pins[2] # Unit
       /\ (ret'.on = "Serial"
             /\ ret'.op \in {"split", "write", "flush", "write_str"}) =>
             \A s \in Receiver(serial \cup serial', ret'.p) : s.pins[1] # Unit
       /\ ret'.op = "split" => Receiver(serial, ret'.p) # {}
       /\ ret'.on = "Tx" =>
             (ret'.op \in {"write", "flush", "write_str"} /\ ret'.p \in tx)
       /\ ret'.on = "Rx" => (ret'.op = "read" /\ ret'.p \in rx)]_vars

\* A tx-only driver is live and its last operation was a flush
C14_Witness ==
    /\ ret.op = "flush" /\ ret.on = "Serial"
    /\ \E s \in serial : s.uart = ret.p /\ s.pins[2] = Unit

\* C15: a receive error is reported on every read made while its flag is
\* latched: read never clears an error flag, a read that follows a read
\* which reported an error and finds the same status word reports the same
\* error, and read never returns a character while OVRE, FRAME or PARE is
\* set.
C15_ErrorsSurface ==
    [][ret'.op = "read" =>
          LET sr == log'[1].bits
          IN  /\ sr \cap ErrFlags # {} <=> ret'.tag = "Err"
              /\ reg'[ret'.p].SR \cap ErrFlags = sr \cap ErrFlags
              /\ \A i \in DOMAIN log' : log'[i].rw = "r"
              /\ (ret.op = "read" /\ ret.p = ret'.p /\ ret.tag = "Err"
                    /\ sr = log[1].bits) =>
                    (ret'.tag = "Err" /\ ret'.err = ret.err)]_vars

\* A read reported Parity although a character was ready, and the flag is
\* still latched afterwards
C15_Witness ==
    /\ ret.op = "read" /\ ret.tag = "Err" /\ ret.err = "Parity"
    /\ "RXRDY" \in StatusRead
    /\ "PARE" \in reg[ret.p].SR

\* C16: write and flush never return an error value: for every status
\* word, with any of OVRE, FRAME and PARE set, they return Ok or
\* WouldBlock, and which of the two is decided by TXRDY alone (write) and
\* by TXEMPTY alone (flush).
C16_WriteFlushInfallible ==
    (ret.op \in {"write", "flush"} /\ ret.tag # "running") =>
        /\ ret.tag \in {"Ok", "WouldBlock"}
        /\ ret.op = "write" => (ret.tag = "Ok" <=> "TXRDY" \in StatusRead)
        /\ ret.op = "flush" => (ret.tag = "Ok" <=> "TXEMPTY" \in StatusRead)

\* C17: no operation reaches a panic or abort for any input it accepts:
\* every constructor call the compiler accepts, with any baud rate (0 and
\* the rates whose product with 16 overflows included), returns, and the
\* program is never halted.
C17_NoPanic ==
    /\ ret.tag # "panic"
    /\ pc # "halt"

\* The peripheral selection the port holds for line i: bit i of the first
\* ABCDSR register is its low bit, bit i of the second its high bit
Selector(b, i) ==
    (IF i \in b.ABCDSR1 THEN 1 ELSE 0) + 2 * (IF i \in b.ABCDSR2 THEN 1 ELSE 0)

\* C18: into_alternate(AFn) on the pin of index i (n in 0..3, i in 0..31)
\* leaves bit i of the first ABCDSR register equal to n & 1 and bit i of
\* the second equal to (n >> 1) & 1.
C18_AlternateSelector ==
    [][ret'.op = "into_alternate" =>
          LET b == pio'[PortOf(ret'.p)]
              i == Index(ret'.p)
              n == ret'.arg
          IN  /\ n \in 0..3 /\ i \in 0..31
              /\ (i \in b.ABCDSR1) <=> (n % 2 = 1)
              /\ (i \in b.ABCDSR2) <=> ((n \div 2) % 2 = 1)
              /\ ret'.pins[1] = <<ret'.p, <<"AF0", "AF1", "AF2", "AF3">>[n + 1]>>]_vars

C18_Witness ==
    /\ ret.op = "into_alternate" /\ ret.arg = 3 /\ ret.p = "PD31"
    /\ Selector(pio["PIOD"], 31) = 3

\* C19: after any sequence of transitions on the pins of a port, the mode
\* tag of every pin value agrees with the port registers: Alternate<AFn>
\* means the line's peripheral selection reads n, Input<PullUp> and
\* Input<PullDown> mean that pull is on and the output driver is off,
\* Output means the output driver is on.
C19_TagsMatchHardware ==
    \A v \in held :
        LET b == pio[PortOf(v[1])]
            i == Index(v[1])
        IN  /\ \A n \in 0..3 :
                  v[2] = <<"AF0", "AF1", "AF2", "AF3">>[n + 1] => Selector(b, i) = n
            /\ v[2] = "Input<PullUp>" => (i \in b.PUSR /\ i \notin b.OSR)
            /\ v[2] = "Input<PullDown>" => (i \in b.PPDSR /\ i \notin b.OSR)
            /\ v[2] = "Output<OpenDrain>" => i \in b.OSR

\* The pin values that are alive: those the application holds and those
\* inside the drivers, as <<holder, value>>
Live ==
    {<<"held", v>> : v \in held}
    \cup {<<s.uart, s.pins[k]>> : s \in {t \in serial : t.pins[1] # Unit}, k \in {1}}
    \cup {<<s.uart, s.pins[k]>> : s \in {t \in serial : t.pins[2] # Unit}, k \in {2}}

\* C20: at most one value is alive for each physical pin: the port split
\* yields one value per pin and consumes the port, a transition consumes
\* the value it is called on and yields one, a constructor takes the values
\* it is given; so PD26 is never inside a UART1 driver under AF3 and a
\* UART2 driver under AF2 at once.
C20_OneValuePerPin ==
    /\ \A port \in Ports : \A v, w \in Parts(port) : v[1] = w[1] => v = w
    /\ Cardinality(Parts("PIOD")) = 32
    /\ \A x, y \in Live : x[2][1] = y[2][1] => x = y
    /\ \A s \in serial : s.pins[1] = Unit \/ s.pins[2] = Unit
                            \/ s.pins[1][1] # s.pins[2][1]
    /\ (ret.op = "split" /\ ret.p \in Ports) => ret.p \notin owned
    /\ ~ \E s, t \in serial :
            /\ s.uart = "UART1" /\ s.pins[1] = <<"PD26", "AF3">>
            /\ t.uart = "UART2" /\ t.pins[1] = <<"PD26", "AF2">>

C20_Witness ==
    /\ "UART1" \in owned
    /\ \E s \in serial : s.uart = "UART2" /\ s.pins[1] = <<"PD26", "AF2">>
    /\ \A v \in held : v[1] # "PD26"

\* The accesses a Tx-half call may make: reads of SR, writes of THR
TxAccess(a) == (a.rw = "r" /\ a.reg = "SR") \/ (a.rw = "w" /\ a.reg = "THR")

\* The accesses an Rx-half call may make: reads of SR and of RHR
RxAccess(a) == a.rw = "r" /\ a.reg \in {"SR", "RHR"}

\* What a call returned, and the accesses it made with the status words it
\* read left out (a status word read after the other half's call differs
\* from one read before it in the other half's flags)
Outcome(o) ==
    [tag |-> o.tag, err |-> o.err, val |-> o.val,
     accs |-> [k \in DOMAIN o.accs |->
                  IF o.accs[k].rw = "r" /\ o.accs[k].reg = "SR"
                  THEN [o.accs[k] EXCEPT !.bits = {}] ELSE o.accs[k]]]

\* C21: calls on the Tx half and calls on the Rx half do not interfere: a
\* Tx call only reads the status and writes THR, an Rx call only reads the
\* status and RHR, neither writes a status bit, and a Tx call and an Rx call
\* made in either order on the same hardware return the same results, make
\* the same accesses and leave the registers in the same state (so any
\* interleaving of two call sequences can be reordered into one sequence
\* after the other, swap by swap).
C21_HalvesCommute ==
    ret.on = "Tx;Rx" =>
        LET one == twin.ret.tx_first
            two == twin.ret.rx_first
        IN  /\ Outcome(one[1]) = Outcome(two[1])
            /\ Outcome(one[2]) = Outcome(two[2])
            /\ twin.reg = reg
            /\ \A k \in DOMAIN one[1].accs : TxAccess(one[1].accs[k])
            /\ \A k \in DOMAIN one[2].accs : RxAccess(one[2].accs[k])
            /\ \A k \in DOMAIN log : log[k].blk = ret.p
            /\ ret.tag = one[2].tag

C21_Witness ==
    /\ ret.on = "Tx;Rx" /\ ret.op = "write"
    /\ twin.ret.tx_first[1].tag = "Ok"
    /\ twin.ret.tx_first[2].tag = "Ok"
    /\ reg[ret.p].THR = ret.arg /\ ret.arg = 105

\* C22: the capability relation holds, for UART0, transmit on PA10 under AF0
\* and receive on PA9 under AF0 and nothing else; for UART2 transmit on PD26
\* and receive on PD25 under AF2; for USART0 transmit on PB1 and receive on
\* PB0 under AF2.  It is the same in every state: whatever has happened, a
\* constructor of UART0 is entered only with PA10<AF0> (or no pin) for
\* transmit and PA9<AF0> (or no pin) for receive, and is rejected with
\* anything else.
C22_CapabilityTable ==
    /\ {t \in Capability : t[3] = "UART0"}
          = {<<"PA10", "AF0", "UART0", "Tx">>, <<"PA9", "AF0", "UART0", "Rx">>}
    /\ {<<"PD26", "AF2", "UART2", "Tx">>, <<"PD25", "AF2", "UART2", "Rx">>,
         <<"PB1", "AF2", "USART0", "Tx">>, <<"PB0", "AF2", "USART0", "Rx">>}
          \subseteq Capability
    /\ (ret.op \in Ctors /\ ret.p = "UART0") =>
          (ret.tag # "rejected" <=>
             /\ ret.pins[1] \in {<<"PA10", "AF0">>, Unit}
             /\ ret.pins[2] \in {<<"PA9", "AF0">>, Unit}
             /\ ret.op = "uart" => Unit \notin {ret.pins[1], ret.pins[2]}
             /\ ret.op = "uarttx" => ret.pins = <<<<"PA10", "AF0">>, Unit>>
             /\ ret.op = "uartrx" => ret.pins = <<Unit, <<"PA9", "AF0">>>>)

C22_Witness ==
    /\ ret.op = "uart" /\ ret.p = "UART0" /\ ret.tag = "Ok"
    /\ ret.pins = <<<<"PA10", "AF0">>, <<"PA9", "AF0">>>>
    /\ \E s \in serial : s.uart = "UART0"

\* C23: enable and disable on the pin of index i return the pin with the
\* mode tag it had, and each makes exactly one register access: a write of
\* the single bit 1 << i to the port's PIO enable register (enable) or PIO
\* disable register (disable); the selection, pull and output-enable
\* registers are left as they were.
C23_EnableDisable ==
    [][ret'.op \in {"enable", "disable"} =>
          LET port == PortOf(ret'.p)
              i == Index(ret'.p)
          IN  /\ log' = <<Access("w", port,
                                 IF ret'.op = "enable" THEN "PER" ELSE "PDR",
                                 {i}, 0)>>
              /\ ret'.pins[1] \in held /\ ret'.pins[1] \in held'
              /\ ret'.pins[1][1] = ret'.p
              /\ held' = held
              /\ \A q \in Ports :
                    /\ pio'[q].ABCDSR1 = pio[q].ABCDSR1
                    /\ pio'[q].ABCDSR2 = pio[q].ABCDSR2
                    /\ pio'[q].PUSR = pio[q].PUSR
                    /\ pio'[q].PPDSR = pio[q].PPDSR
                    /\ pio'[q].OSR = pio[q].OSR
                    /\ q # port => pio'[q] = pio[q]
              /\ pio'[port].PSR = IF ret'.op = "enable"
                                  THEN pio[port].PSR \cup {i}
                                  ELSE pio[port].PSR \ {i}
              /\ reg' = reg /\ pmc' = pmc]_vars

C23_Witness ==
    /\ ret.op = "disable" /\ ret.p = "PD26"
    /\ ret.pins[1] = <<"PD26", "AF2">>
    /\ 26 \notin pio["PIOD"].PSR
    /\ Selector(pio["PIOD"], 26) = 2

\* Peripheral identifiers of the serial instances
Identifier(p) ==
    CASE p = "UART0" -> 7 [] p = "UART1" -> 8 [] p = "UART2" -> 44
      [] p = "UART3" -> 45 [] p = "UART4" -> 46
      [] p = "USART0" -> 13 [] p = "USART1" -> 14 [] p = "USART2" -> 15

\* The name of the clock-enable bit of identifier n
PidField(n) ==
    CASE n = 7 -> "PID7" [] n = 8 -> "PID8" [] n = 44 -> "PID44"
      [] n = 45 -> "PID45" [] n = 46 -> "PID46"
      [] n = 13 -> "PID13" [] n = 14 -> "PID14" [] n = 15 -> "PID15"

\* C24: each constructor enables exactly the clock-gate bit of its own
\* peripheral - identifier 7 for UART0, 8 for UART1, 44, 45, 46 for UART2,
\* UART3, UART4, 13, 14, 15 for USART0, USART1, USART2, identifiers 0-31 in
\* the first clock-enable register and 32-63 in the second - and sets no
\* other peripheral's clock bit.
C24_OwnClockBit ==
    Constructed =>
        LET n == Identifier(ret.p)
            pcer == IF n < 32 THEN "PCER0" ELSE "PCER1"
            writes == {k \in DOMAIN log : log[k].blk = "PMC"}
        IN  /\ Cardinality(writes) = 1
            /\ \A k \in writes :
                  log[k] = Access("w", "PMC", pcer, {PidField(n)}, 0)
            /\ pmc.clocks = {PidField(n)}
            /\ pmc[pcer] = {PidField(n)}
            /\ pmc[IF n < 32 THEN "PCER1" ELSE "PCER0"] = {}

C24_Witness ==
    /\ Constructed /\ ret.p = "UART2" /\ ret.tag = "Ok"
    /\ pmc.clocks = {"PID44"} /\ pmc.PCER1 = {"PID44"}

\* C25: downgrade preserves behaviour: it accesses no register, the handle
\* carries the mode tag, the port and the bit of the pin, and is_low,
\* is_set_low, set_high and set_low (and their negations) called on the
\* handle make the same register accesses, return the same results and
\* leave the port in the same state as the same calls on the pin.
C25_DowngradeEquivalence ==
    /\ ret.op = "downgrade" =>
          /\ log = <<>>
          /\ pio = twin.pio
          /\ held = {}
          /\ \A v \in twin.held :
                erased = {[i |-> Index(v[1]), port |-> PortOf(v[1]), mode |-> v[2]]}
    /\ ret.on = "Pin<MODE>" =>
          /\ twin.ret.op = ret.op
          /\ twin.ret.tag = ret.tag
          /\ twin.ret.val = ret.val
          /\ twin.log = log
          /\ twin.pio = pio
          /\ \A v \in twin.held :
                /\ PortOf(v[1]) = ret.p /\ Index(v[1]) = ret.arg
                /\ \A e \in erased : MethodsOf(e.mode) = MethodsOf(v[2])

C25_Witness ==
    /\ ret.on = "Pin<MODE>" /\ ret.op = "is_set_low" /\ ret.val = 0
    /\ ret.arg = 26
    /\ 26 \in pio["PIOD"].ODSR
    /\ \E e \in erased : e.mode = "Output<OpenDrain>"

\* C26: into_alternate(AFn) on pin i changes only bit i of the two
\* alternate-function select registers of the port: the selector of every
\* other line j of the port is what it was, so a pin moved earlier to AFm
\* still has selector m (pd26.into_alternate_af2 followed by
\* pd25.into_alternate_af2 leaves both lines on AF2).
C26_AlternateFrame ==
    [][ret'.op = "into_alternate" =>
          LET port == PortOf(ret'.p)
              i == Index(ret'.p)
          IN  /\ \A j \in (0..31) \ {i} :
                    Selector(pio'[port], j) = Selector(pio[port], j)
              /\ \A v \in held' :
                    v[2] = "AF2" => Selector(pio'[PortOf(v[1])], Index(v[1])) = 2]_vars

\* The receive error flags latched in the status register of p
Latched(p) == reg[p].SR \cap ErrFlags

\* C27: after construction no driver operation (read, write, flush,
\* write_str, split, release) writes the control register, so none resets
\* the latched status: from a state where p has been constructed and OVRE,
\* FRAME or PARE is set, every step leaves the flag set, and a step that is a
\* read on p returns an error - never a character.  Holding of every step,
\* it holds of every later read, whatever operations come between.
C27_ErrorsStayLatched ==
    [][\A p \in Periphs \ owned' :
          /\ ret'.op \notin Ctors =>
                \A k \in DOMAIN log' : ~(log'[k].rw = "w" /\ log'[k].reg = "CR")
          /\ (p \notin owned /\ Latched(p) # {}) =>
                /\ Latched(p) \subseteq reg'[p].SR
                /\ (ret'.op = "read" /\ ret'.p = p) =>
                      (ret'.tag = "Err" /\ ret'.err \in {"Overrun", "Framing", "Parity"})]_vars

C27_Witness ==
    /\ ret.op = "flush" /\ ret.tag = "Ok"
    /\ "PARE" \in reg[ret.p].SR
    /\ ret.p \in tx

\* C28: an Rx handle for peripheral p exists only if p's receiver was
\* enabled, and a Tx handle only if its transmitter was, by a full-duplex
\* construction: handles appear only in a split step, split is taken only on
\* a driver that holds a tx pin and an rx pin, and the constructor of such a
\* driver wrote TXEN and RXEN; no sequence of tx-only and rx-only
\* constructions, releases and splits yields a handle for a direction that
\* is not enabled.
C28_HandlesOfEnabledDirections ==
    [][/\ \A p \in tx' : reg'[p].TXEN /\ {"TXEN", "RXEN"} \subseteq reg'[p].CR
       /\ \A p \in rx' : reg'[p].RXEN /\ {"TXEN", "RXEN"} \subseteq reg'[p].CR
       /\ tx' = rx'
       /\ (tx' # tx \/ rx' # rx) =>
             /\ ret'.op = "split"
             /\ tx' = tx \cup {ret'.p} /\ rx' = rx \cup {ret'.p}
             /\ \E s \in serial :
                   /\ s.uart = ret'.p
                   /\ s.pins[1] \in TxPin(s.uart) /\ s.pins[2] \in RxPin(s.uart)
                   /\ s \notin serial']_vars

C28_Witness ==
    /\ ret.op = "split"
    /\ \E p \in rx : p \in tx /\ reg[p].RXEN /\ reg[p].TXEN /\ p \in USARTs

\* C29: write_str(s) stores the bytes of s into THR in string order, each
\* exactly once and only by a turn of its loop that read TXRDY set; a turn
\* that reads TXRDY clear stores nothing and polls again; Ok is returned by
\* the turn that stores the last byte (at once for the empty string), and
\* never an error or 'not ready'; and the call terminates when TXRDY comes
\* to be set for each byte - without it, it does not leave the loop.
C29_WriteStr ==
    /\ [](pc = "write_str" =>
             /\ ws.todo # <<>>
             /\ ws.sent \o ws.todo \in Strings)
    /\ [][ret'.op = "write_str" =>
             /\ ret'.tag \in {"running", "Ok"}
             /\ pc = "run" =>
                   /\ log' = <<>>
                   /\ (ret'.tag = "Ok") <=> (pc' = "run")
                   /\ pc' = "write_str" => (ws'.sent = <<>> /\ ws'.todo \in Strings)
             /\ pc = "write_str" =>
                   LET c == Head(ws.todo)
                   IN  /\ log'[1].rw = "r" /\ log'[1].reg = "SR"
                       /\ IF "TXRDY" \in log'[1].bits
                          THEN /\ Len(log') = 2
                               /\ log'[2] = Access("w", ws.p, "THR", {}, c)
                               /\ reg'[ws.p].THR = c
                               /\ IF Len(ws.todo) = 1
                                  THEN ret'.tag = "Ok" /\ pc' = "run"
                                  ELSE /\ ret'.tag = "running" /\ pc' = "write_str"
                                       /\ ws'.todo = Tail(ws.todo)
                                       /\ ws'.sent = Append(ws.sent, c)
                          ELSE /\ Len(log') = 1
                               /\ ret'.tag = "running" /\ pc' = "write_str"
                               /\ ws' = ws
                               /\ reg'[ws.p].THR = reg[ws.p].THR]_vars
    /\ (pc = "write_str") ~> (pc = "run" /\ ret.op = "write_str" /\ ret.tag = "Ok")

\* write_str has returned Ok from the turn of its loop that stored the last
\* byte of a two-byte string
C29_Witness ==
    /\ pc = "run" /\ ret.op = "write_str" /\ ret.tag = "Ok"
    /\ Len(log) = 2 /\ log[2].reg = "THR" /\ log[2].num = 105
    /\ reg[ret.p].THR = 105

\* The un-split drivers of peripheral p
DriversOf(p) == {s \in serial : s.uart = p}

\* Whether a half produced by split exists for p
HasHalves(p) == p \in tx \cup rx

\* C30: for each peripheral, at every point at most one owner of its
\* transport operations exists - one un-split driver or one (Tx, Rx) pair,
\* never both and never two drivers, and none while the peripheral instance
\* is still unused; a constructor consumes the instance, split and release
\* consume the driver, an owner comes only from a constructor or from split,
\* and after release nothing that can read, write or flush remains.
C30_SingleOwner ==
    /\ [](\A p \in Periphs :
             /\ Cardinality(DriversOf(p)) + (IF HasHalves(p) THEN 1 ELSE 0) <= 1
             /\ (p \in tx) <=> (p \in rx)
             /\ p \in owned => (DriversOf(p) = {} /\ ~HasHalves(p)))
    /\ [][\A p \in Periphs :
             /\ (ret'.p = p /\ ret'.op \in Ctors /\ ret'.tag # "rejected") =>
                    /\ p \in owned /\ p \notin owned'
                    /\ DriversOf(p) = {} /\ ~HasHalves(p)
                    /\ Cardinality(DriversOf(p)') <= 1
                    /\ ~HasHalves(p)'
             /\ (ret'.p = p /\ ret'.op = "split") =>
                    /\ DriversOf(p) # {}
                    /\ DriversOf(p)' = {}
                    /\ p \in tx' /\ p \in rx' /\ p \notin owned'
             /\ (ret'.p = p /\ ret'.op = "release") =>
                    /\ DriversOf(p) # {}
                    /\ DriversOf(p)' = {} /\ ~HasHalves(p)' /\ p \notin owned'
             /\ p \in owned' => p \in owned
             /\ (DriversOf(p)' # {} /\ DriversOf(p) = {}) =>
                    (ret'.op \in Ctors /\ ret'.p = p /\ p \in owned)
             /\ (HasHalves(p)' /\ ~HasHalves(p)) =>
                    (ret'.op = "split" /\ ret'.p = p /\ DriversOf(p) # {})]_vars

\* UART2's driver has been released while USART0 is held by a split pair:
\* nothing of UART2 is left, not even the unused instance
C30_Witness ==
    /\ ret.op = "release" /\ ret.p = "UART2"
    /\ DriversOf("UART2") = {} /\ ~HasHalves("UART2") /\ "UART2" \notin owned
    /\ "USART0" \in tx /\ "USART0" \in rx /\ DriversOf("USART0") = {}

====
